---- MODULE Spec2Model ----
(***************************************************************************)
(* Model of the job event pipeline of vmorsell/bob: the monitoring Hub     *)
(* (monitor.go) with its producers (callers of Hub.Emit), its single       *)
(* processing goroutine (Hub.run) and its SSE observers (Hub.ServeSSE).    *)
(*                                                                         *)
(* Environment assumptions of the model:                                   *)
(*   - os.OpenFile may fail on any attempt (openJobFile returns err);      *)
(*   - a Write on an opened log file appends the whole line;               *)
(*   - every payload handed to Emit by the callers in this repository      *)
(*     (strings, integers, finite floats, booleans) serialises, so the     *)
(*     payload flag drawn in Next is taken from CallerPayloads.            *)
(***************************************************************************)
EXTENDS Integers, Sequences, FiniteSets, TLC

\* ---- bounds of the model ------------------------------------------------
MaxSeq == 3          \* Emit calls that reach the sequence counter
BroadcastCap == 1    \* capacity of h.broadcast (4096 in the program)
SendCap == 1         \* capacity of sseClient.send (64 in the program)

Producers == {"p1", "p2"}
Clients == {"c1", "c2"}
Jobs == {"j1", "j2"}
Filters == Jobs \cup {""}
HubRefs == {"hub", "nil"}
CallerPayloads == {TRUE}

\* The scenarios explored: which producers call Emit, which observers may
\* connect and with which job filters, and how many events are emitted.
TwoProducers ==
    [producers |-> {"p1", "p2"},
     allowed |-> [c \in Clients |-> {}],
     emits |-> MaxSeq,
     cap |-> BroadcastCap]
OneObserver ==
    [producers |-> {"p1"},
     allowed |-> [c \in Clients |-> IF c = "c1" THEN Filters ELSE {}],
     emits |-> MaxSeq,
     cap |-> BroadcastCap]
TwoObservers ==
    [producers |-> {"p1"},
     allowed |-> [c \in Clients |-> IF c = "c1" THEN {""} ELSE {"j1"}],
     emits |-> MaxSeq - 1,
     cap |-> BroadcastCap]
Configs == {TwoProducers, OneObserver, TwoObservers}

\* A scenario with room for one more event in h.broadcast, so that events
\* wait in the queue behind one another while the loop works on a third,
\* and with one observer of every job.
DeepQueue ==
    [producers |-> {"p1"},
     allowed |-> [c \in Clients |-> IF c = "c1" THEN {""} ELSE {}],
     emits |-> MaxSeq,
     cap |-> BroadcastCap + 1]

NoEvent == [id |-> 0, job |-> "", ok |-> TRUE]

VARIABLES
    cfg,        \* the scenario, fixed by Init
    seq,        \* Hub.seq
    broadcast,  \* Hub.broadcast: buffered channel of Event
    jobFiles,   \* Hub.jobFiles: job ids that have an open handle
    files,      \* the data directory: job id -> lines of <job>.jsonl
    clients,    \* Hub.clients: the registered observers
    filter,     \* sseClient.jobID
    send,       \* sseClient.send: buffered channel of marshalled events
    closed,     \* whether sseClient.send has been closed
    cstate,     \* ServeSSE handler: "idle" (not connected), "live", "gone", "done"
    pc,         \* producer position inside Emit: "idle" | "send"
    pend,       \* the Event a producer built and has not yet sent
    runPc,      \* Hub.run position: "idle" | "persist" | "fanout" | "panic"
    cur,        \* Hub.run: loop variable e
    todo,       \* Hub.run: observers the range loop has still to visit
    \* ---- history (ghost) variables, never read by the actions' guards
    calls,      \* per producer: the events its Emit calls built, in call order
    noop,       \* whether some Emit call has returned at once
    ingestDropped, \* ids dropped because h.broadcast was full
    openFailed, \* ids whose openJobFile returned an error
    enq,        \* per observer: every event ever enqueued on its channel
    droppedFor, \* <<observer, id>>: the send hit the default branch
    closeCount, \* per observer: number of close(c.send) executed
    \* ---- one run of the external process (runClaudeCode)
    stdout,     \* the bytes the process writes before it ends
    fed,        \* how many of them cmd.Run has passed to sp.Write
    exited,     \* whether cmd.Run has returned
    sp,         \* the claudeStreamParser of the run
    \* ---- one request to the job list (ServeJobList)
    logf,       \* the lines of one <job>.jsonl file in the data directory
    scan,       \* the handler's position and locals while it reads that file
    \* ---- one request to the history of a job (ServeJobAPI)
    fstat,      \* what os.Open finds at the path of the job's log file
    resp,       \* the response written by the handler
    \* ---- the orchestration runs (Orchestrator.Orchestrate)
    threadJobs, \* Hub.threadJobs: Slack thread -> id of its active job, "" for none
    orch,       \* per mention: position and locals of its Orchestrate call
    olog,       \* the calls to Hub.Emit made for the runs, in call order
    \* ---- the log file handles over the life of the process
    handles,    \* per job: the handles os.OpenFile returned that were not closed
    stopped     \* whether the process has ended

hubVars == <<seq, broadcast, jobFiles, files, clients, filter, send, closed>>
procVars == <<cstate, pc, pend, runPc, cur, todo>>
histVars == <<calls, noop, ingestDropped, openFailed, enq, droppedFor, closeCount>>
spVars == <<stdout, fed, exited, sp>>
listVars == <<logf, scan>>
\* The components around the Hub; the Hub's own steps leave them alone.
apiVars == <<fstat, resp>>
orchVars == <<threadJobs, orch, olog>>
lifeVars == <<handles, stopped>>
envVars == <<spVars, listVars, apiVars, orchVars, lifeVars>>
vars == <<cfg, hubVars, procVars, histVars, envVars>>

\* ---- pure helpers -------------------------------------------------------

\* json.Marshal(e): the record line, or an error for a payload that cannot
\* be serialised (then the returned bytes are nil).
Marshal(e) ==
    IF e.ok THEN [err |-> FALSE, data |-> <<"id", e.id, "job_id", e.job>>]
            ELSE [err |-> TRUE, data |-> <<>>]

\* json.Unmarshal of one line of a log file.
Unmarshal(line) ==
    IF Len(line) = 4 /\ line[1] = "id" /\ line[3] = "job_id"
        THEN [err |-> FALSE, e |-> [id |-> line[2], job |-> line[4]]]
        ELSE [err |-> TRUE, e |-> [id |-> 0, job |-> ""]]

RECURSIVE ReadLines(_)
\* ServeJobAPI's scan loop: the parseable records of the file, in file order.
ReadLines(lines) ==
    IF lines = <<>> THEN <<>>
    ELSE LET r == Unmarshal(Head(lines))
         IN  IF r.err THEN ReadLines(Tail(lines))
                      ELSE <<r.e>> \o ReadLines(Tail(lines))

\* The history read path for one job.
ReadBack(j) == ReadLines(files[j])

\* Faulty variant: the filter test without the empty-filter case.
Matches_ExactOnly(c, e) == filter[c] = e.job

\* The fan-out's filter test.
Matches(c, e) == filter[c] = "" \/ filter[c] = e.job

\* h.mu: run holds the read lock for the whole range loop; add and remove
\* take the write lock, which is granted only while no reader holds it.
RLockHeld == runPc = "fanout"

\* No external process has been started and no list request is being served.
NoParser == [hub |-> "nil", jobID |-> ""]
NoScan == [at |-> "none", jobs |-> <<>>]
NoResponse == [id |-> "", code |-> 0, body |-> "", events |-> <<>>]
Threads == {"T1", "T2"}
Mentions == {"m1", "m2"}
\* A mention that has not reached the handler yet.
NoProc == [stdout |-> <<>>, runErr |-> FALSE, git |-> ""]
NoRun(t) ==
    [pc |-> "idle", thread |-> t, phase |-> "", jobID |-> "", created |-> FALSE,
     proc |-> NoProc, Status |-> "", Text |-> <<>>, IsJob |-> FALSE, PRURL |-> ""]
OrchIdle ==
    /\ threadJobs = [t \in Threads |-> ""]
    /\ orch = [m \in Mentions |-> NoRun("T1")]
    /\ olog = <<>>
NoHandles ==
    /\ handles = [j \in Jobs |-> 0]
    /\ stopped = FALSE
EnvIdle ==
    /\ stdout = <<>> /\ fed = 0 /\ exited = FALSE /\ sp = NoParser
    /\ logf = <<>> /\ scan = NoScan
    /\ fstat = "present" /\ resp = NoResponse
    /\ OrchIdle
    /\ NoHandles

\* ---- initial state: NewHub -----------------------------------------------
NewHub ==
    /\ seq = 0
    /\ broadcast = <<>>
    /\ jobFiles = {}
    /\ files = [j \in Jobs |-> <<>>]
    /\ clients = {}
    /\ filter = [c \in Clients |-> ""]
    /\ send = [c \in Clients |-> <<>>]
    /\ closed = [c \in Clients |-> FALSE]
    /\ cstate = [c \in Clients |-> "idle"]
    /\ pc = [p \in Producers |-> "idle"]
    /\ pend = [p \in Producers |-> NoEvent]
    /\ runPc = "idle"
    /\ cur = NoEvent
    /\ todo = {}
    /\ calls = [p \in Producers |-> <<>>]
    /\ noop = FALSE
    /\ ingestDropped = {}
    /\ openFailed = {}
    /\ enq = [c \in Clients |-> <<>>]
    /\ droppedFor = {}
    /\ closeCount = [c \in Clients |-> 0]

Init ==
    /\ cfg \in Configs
    /\ NewHub
    /\ EnvIdle

\* ---- Hub.Emit -------------------------------------------------------------

\* Faulty variant: the early return tests only h == nil, so an empty job id goes on
\* to the sequence counter and the queue.
EmitReturn_OnlyNil(p, h, j) ==
    /\ p \in cfg.producers
    /\ pc[p] = "idle"
    /\ h = "nil" \/ j = ""
    /\ noop' = TRUE
    /\ IF h = "nil"
          THEN UNCHANGED <<seq, pend, pc, calls>>
          ELSE /\ seq < cfg.emits
               /\ seq' = seq + 1
               /\ pend' = [pend EXCEPT ![p] = [id |-> seq + 1, job |-> j, ok |-> TRUE]]
               /\ pc' = [pc EXCEPT ![p] = "send"]
               /\ calls' = [calls EXCEPT ![p] = Append(@, [id |-> seq + 1, job |-> j])]
    /\ UNCHANGED <<envVars, cfg, broadcast, jobFiles, files, clients, filter, send, closed,
                   cstate, runPc, cur, todo, ingestDropped, openFailed, enq,
                   droppedFor, closeCount>>

\* Emit, early return: h == nil || jobID == "".
EmitReturn(p, h, j) ==
    /\ p \in cfg.producers
    /\ pc[p] = "idle"
    /\ h = "nil" \/ j = ""
    /\ noop' = TRUE
    /\ UNCHANGED <<envVars, cfg, hubVars, procVars, calls, ingestDropped, openFailed, enq,
                   droppedFor, closeCount>>

\* Emit, atomic.AddUint64 and construction of the Event.
EmitAssign(p, h, j, d) ==
    /\ p \in cfg.producers
    /\ pc[p] = "idle"
    /\ ~(h = "nil" \/ j = "")
    /\ seq < cfg.emits
    /\ seq' = seq + 1
    /\ pend' = [pend EXCEPT ![p] = [id |-> seq + 1, job |-> j, ok |-> d]]
    /\ pc' = [pc EXCEPT ![p] = "send"]
    /\ calls' = [calls EXCEPT ![p] = Append(@, [id |-> seq + 1, job |-> j])]
    /\ UNCHANGED <<envVars, cfg, broadcast, jobFiles, files, clients, filter, send, closed,
                   cstate, runPc, cur, todo, noop, ingestDropped, openFailed,
                   enq, droppedFor, closeCount>>

\* Faulty variant: a plain (blocking) channel send instead of the select.
EmitSend_Blocking(p) ==
    /\ pc[p] = "send"
    /\ Len(broadcast) < cfg.cap
    /\ broadcast' = Append(broadcast, pend[p])
    /\ pc' = [pc EXCEPT ![p] = "idle"]
    /\ pend' = [pend EXCEPT ![p] = NoEvent]
    /\ UNCHANGED <<envVars, cfg, seq, jobFiles, files, clients, filter, send, closed,
                   cstate, runPc, cur, todo, histVars>>

\* Emit, the select: send on h.broadcast, or drop when it is full.
EmitSend(p) ==
    /\ pc[p] = "send"
    /\ IF Len(broadcast) < cfg.cap
          THEN /\ broadcast' = Append(broadcast, pend[p])
               /\ UNCHANGED ingestDropped
          ELSE /\ ingestDropped' = ingestDropped \cup {pend[p].id}
               /\ UNCHANGED broadcast
    /\ pc' = [pc EXCEPT ![p] = "idle"]
    /\ pend' = [pend EXCEPT ![p] = NoEvent]
    /\ UNCHANGED <<envVars, cfg, seq, jobFiles, files, clients, filter, send, closed,
                   cstate, runPc, cur, todo, calls, noop, openFailed, enq,
                   droppedFor, closeCount>>

\* ---- Hub.run ----------------------------------------------------------------

\* Faulty variant: the loop goes straight to the fan-out, without the persistence
\* block.
RunRecv_SkipPersist ==
    /\ runPc = "idle"
    /\ broadcast # <<>>
    /\ cur' = Head(broadcast)
    /\ broadcast' = Tail(broadcast)
    /\ runPc' = "fanout"
    /\ todo' = clients
    /\ UNCHANGED <<envVars, cfg, seq, jobFiles, files, clients, filter, send, closed,
                   cstate, pc, pend, histVars>>

\* for e := range h.broadcast
RunRecv ==
    /\ runPc = "idle"
    /\ broadcast # <<>>
    /\ cur' = Head(broadcast)
    /\ broadcast' = Tail(broadcast)
    /\ runPc' = "persist"
    /\ UNCHANGED <<envVars, cfg, seq, jobFiles, files, clients, filter, send, closed,
                   cstate, pc, pend, todo, histVars>>

\* Where the loop goes after the persistence block: the second json.Marshal
\* with the `continue` on its error, else h.mu.RLock() and the range loop
\* over the registry (todo).
AfterPersist(e) == IF Marshal(e).err THEN "idle" ELSE "fanout"

\* Faulty variant: the event that makes openJobFile create the file is not written.
RunPersistWrite_SkipFirst ==
    /\ runPc = "persist"
    /\ \/ /\ cur.job \in jobFiles
          /\ files' = [files EXCEPT ![cur.job] = Append(@, Marshal(cur).data)]
          /\ UNCHANGED jobFiles
       \/ /\ cur.job \notin jobFiles
          /\ jobFiles' = jobFiles \cup {cur.job}
          /\ UNCHANGED files
    /\ runPc' = IF Marshal(cur).err THEN "idle" ELSE "fanout"
    /\ cur' = IF runPc' = "idle" THEN NoEvent ELSE cur
    /\ todo' = IF runPc' = "idle" THEN {} ELSE clients
    /\ UNCHANGED <<envVars, cfg, seq, broadcast, clients, filter, send, closed, cstate, pc,
                   pend, histVars>>

\* openJobFile returned a handle: line, _ := json.Marshal(e); f.Write(line+"\n")
RunPersistWrite ==
    /\ runPc = "persist"
    /\ \/ cur.job \in jobFiles /\ UNCHANGED jobFiles
       \/ cur.job \notin jobFiles /\ jobFiles' = jobFiles \cup {cur.job}
    /\ files' = [files EXCEPT ![cur.job] = Append(@, Marshal(cur).data)]
    /\ runPc' = AfterPersist(cur)
    /\ cur' = IF runPc' = "idle" THEN NoEvent ELSE cur
    /\ todo' = IF runPc' = "idle" THEN {} ELSE clients
    /\ UNCHANGED <<envVars, cfg, seq, broadcast, clients, filter, send, closed, cstate, pc,
                   pend, histVars>>

\* Faulty variant: the open error is followed by `continue`, skipping the fan-out.
RunPersistOpenFail_Continue ==
    /\ runPc = "persist"
    /\ cur.job \notin jobFiles
    /\ openFailed' = openFailed \cup {cur.id}
    /\ runPc' = "idle"
    /\ cur' = NoEvent
    /\ todo' = {}
    /\ UNCHANGED <<envVars, cfg, seq, broadcast, jobFiles, files, clients, filter, send,
                   closed, cstate, pc, pend, calls, noop, ingestDropped,
                   enq, droppedFor, closeCount>>

\* openJobFile returned an error (only possible when no handle is cached):
\* it is logged and persistence of this event is skipped.
RunPersistOpenFail ==
    /\ runPc = "persist"
    /\ cur.job \notin jobFiles
    /\ openFailed' = openFailed \cup {cur.id}
    /\ runPc' = AfterPersist(cur)
    /\ cur' = IF runPc' = "idle" THEN NoEvent ELSE cur
    /\ todo' = IF runPc' = "idle" THEN {} ELSE clients
    /\ UNCHANGED <<envVars, cfg, seq, broadcast, jobFiles, files, clients, filter, send,
                   closed, cstate, pc, pend, calls, noop, ingestDropped,
                   enq, droppedFor, closeCount>>

\* Faulty variant: a full observer queue ends the range loop.
RunFanout_StopAtFull(c) ==
    /\ runPc = "fanout"
    /\ c \in todo
    /\ UNCHANGED runPc
    /\ IF ~Matches(c, cur)
          THEN /\ todo' = todo \ {c}
               /\ UNCHANGED <<send, enq, droppedFor>>
          ELSE IF Len(send[c]) < SendCap
              THEN /\ todo' = todo \ {c}
                   /\ send' = [send EXCEPT ![c] = Append(@, Marshal(cur).data)]
                   /\ enq' = [enq EXCEPT ![c] = Append(@, [id |-> cur.id, job |-> cur.job])]
                   /\ UNCHANGED droppedFor
              ELSE /\ todo' = {}
                   /\ droppedFor' = droppedFor \cup {<<c, cur.id>>}
                   /\ UNCHANGED <<send, enq>>
    /\ UNCHANGED <<envVars, cfg, seq, broadcast, jobFiles, files, clients, filter, closed,
                   cstate, pc, pend, cur, calls, noop, ingestDropped,
                   openFailed, closeCount>>

\* Faulty variant: an observer whose queue is full is removed and its queue closed.
RunFanout_KickSlow(c) ==
    /\ runPc = "fanout"
    /\ c \in todo
    /\ todo' = todo \ {c}
    /\ UNCHANGED runPc
    /\ IF ~Matches(c, cur)
          THEN UNCHANGED <<send, enq, droppedFor, clients, closed, closeCount>>
          ELSE IF Len(send[c]) < SendCap
              THEN /\ send' = [send EXCEPT ![c] = Append(@, Marshal(cur).data)]
                   /\ enq' = [enq EXCEPT ![c] = Append(@, [id |-> cur.id, job |-> cur.job])]
                   /\ UNCHANGED <<droppedFor, clients, closed, closeCount>>
              ELSE /\ droppedFor' = droppedFor \cup {<<c, cur.id>>}
                   /\ clients' = clients \ {c}
                   /\ closed' = [closed EXCEPT ![c] = TRUE]
                   /\ closeCount' = [closeCount EXCEPT ![c] = @ + 1]
                   /\ UNCHANGED <<send, enq>>
    /\ UNCHANGED <<envVars, cfg, seq, broadcast, jobFiles, files, filter,
                   cstate, pc, pend, cur, calls, noop, ingestDropped,
                   openFailed>>

\* Faulty variant: a plain (blocking) send on the observer's queue, so the
\* iteration waits until a full queue is drained.
RunFanout_Blocking(c) ==
    /\ runPc = "fanout"
    /\ c \in todo
    /\ todo' = todo \ {c}
    /\ UNCHANGED <<runPc, droppedFor>>
    /\ IF ~Matches(c, cur)
          THEN UNCHANGED <<send, enq>>
          ELSE /\ Len(send[c]) < SendCap
               /\ send' = [send EXCEPT ![c] = Append(@, Marshal(cur).data)]
               /\ enq' = [enq EXCEPT ![c] = Append(@, [id |-> cur.id, job |-> cur.job])]
    /\ UNCHANGED <<envVars, cfg, seq, broadcast, jobFiles, files, clients, filter, closed,
                   cstate, pc, pend, cur, calls, noop, ingestDropped,
                   openFailed, closeCount>>

\* One iteration of `for c := range h.clients`: the filter test and the
\* non-blocking send.  A send on a closed channel panics.
RunFanout(c) ==
    /\ runPc = "fanout"
    /\ c \in todo
    /\ todo' = todo \ {c}
    /\ IF ~Matches(c, cur)
          THEN UNCHANGED <<send, enq, droppedFor, runPc>>
          ELSE IF closed[c]
              THEN /\ runPc' = "panic"
                   /\ UNCHANGED <<send, enq, droppedFor>>
              ELSE /\ runPc' = runPc
                   /\ IF Len(send[c]) < SendCap
                         THEN /\ send' = [send EXCEPT ![c] = Append(@, Marshal(cur).data)]
                              /\ enq' = [enq EXCEPT ![c] = Append(@, [id |-> cur.id, job |-> cur.job])]
                              /\ UNCHANGED droppedFor
                         ELSE /\ droppedFor' = droppedFor \cup {<<c, cur.id>>}
                              /\ UNCHANGED <<send, enq>>
    /\ UNCHANGED <<envVars, cfg, seq, broadcast, jobFiles, files, clients, filter, closed,
                   cstate, pc, pend, cur, calls, noop, ingestDropped,
                   openFailed, closeCount>>

\* h.mu.RUnlock() after the range loop; back to the channel receive.
RunRUnlock ==
    /\ runPc = "fanout"
    /\ todo = {}
    /\ runPc' = "idle"
    /\ cur' = NoEvent
    /\ UNCHANGED <<envVars, cfg, hubVars, cstate, pc, pend, todo, histVars>>

\* ---- observers ----------------------------------------------------------------

\* Faulty variant: add and remove do not take h.mu.
CanLock_NoLock == TRUE

\* h.mu.Lock() is granted.
CanLock == ~RLockHeld

\* Hub.add under h.mu.Lock().
add(c) ==
    /\ CanLock
    /\ clients' = clients \cup {c}

\* Hub.remove under h.mu.Lock(): delete and close only if still registered.
remove(c) ==
    /\ CanLock
    /\ IF c \in clients
          THEN /\ clients' = clients \ {c}
               /\ closed' = [closed EXCEPT ![c] = TRUE]
               /\ closeCount' = [closeCount EXCEPT ![c] = @ + 1]
          ELSE UNCHANGED <<clients, closed, closeCount>>

\* Faulty variant: the new client's channel is preloaded with the newest record
\* of the job log before it is registered.
Connect_Replay(c, f) ==
    LET old == ReadBack(IF f = "" THEN "j1" ELSE f)
        hist == IF old = <<>> THEN <<>> ELSE <<old[Len(old)]>>
    IN  /\ cstate[c] = "idle"
        /\ f \in cfg.allowed[c]
        /\ filter' = [filter EXCEPT ![c] = f]
        /\ add(c)
        /\ cstate' = [cstate EXCEPT ![c] = "live"]
        /\ send' = [send EXCEPT ![c] =
                       [i \in DOMAIN hist |->
                           Marshal([id |-> hist[i].id, job |-> hist[i].job, ok |-> TRUE]).data]]
        /\ enq' = [enq EXCEPT ![c] = hist]
        /\ UNCHANGED <<envVars, cfg, seq, broadcast, jobFiles, files, closed, pc, pend,
                       runPc, cur, todo, calls, noop, ingestDropped, openFailed,
                       droppedFor, closeCount>>

\* ServeSSE up to h.add(c): a new client with the request's job filter.
Connect(c, f) ==
    /\ cstate[c] = "idle"
    /\ f \in cfg.allowed[c]
    /\ filter' = [filter EXCEPT ![c] = f]
    /\ add(c)
    /\ cstate' = [cstate EXCEPT ![c] = "live"]
    /\ UNCHANGED <<envVars, cfg, seq, broadcast, jobFiles, files, send, closed, pc, pend,
                   runPc, cur, todo, calls, noop, ingestDropped, openFailed,
                   enq, droppedFor, closeCount>>

\* ServeSSE's select, case msg := <-c.send: written to the response.
Receive(c) ==
    /\ cstate[c] = "live"
    /\ send[c] # <<>>
    /\ send' = [send EXCEPT ![c] = Tail(@)]
    /\ UNCHANGED <<envVars, cfg, seq, broadcast, jobFiles, files, clients, filter, closed,
                   procVars, histVars>>

\* ServeSSE's select, case <-r.Context().Done(): return, and the deferred
\* h.remove(c) runs.
Disconnect(c) ==
    /\ cstate[c] = "live"
    /\ remove(c)
    /\ cstate' = [cstate EXCEPT ![c] = "gone"]
    /\ UNCHANGED <<envVars, cfg, seq, broadcast, jobFiles, files, filter, send, pc, pend,
                   runPc, cur, todo, calls, noop, ingestDropped, openFailed,
                   enq, droppedFor>>

\* A further call of Hub.remove for an observer that was already removed.
RemoveAgain(c) ==
    /\ cstate[c] = "gone"
    /\ remove(c)
    /\ cstate' = [cstate EXCEPT ![c] = "done"]
    /\ UNCHANGED <<envVars, cfg, seq, broadcast, jobFiles, files, filter, send, pc, pend,
                   runPc, cur, todo, calls, noop, ingestDropped, openFailed, enq, droppedFor>>

\* ---- specification ----------------------------------------------------------------
Next ==
    \/ \E p \in Producers, h \in HubRefs, j \in Filters : EmitReturn(p, h, j)
    \/ \E p \in Producers, h \in HubRefs, j \in Filters, d \in CallerPayloads :
           EmitAssign(p, h, j, d)
    \/ \E p \in Producers : EmitSend(p)
    \/ RunRecv
    \/ RunPersistWrite
    \/ RunPersistOpenFail
    \/ \E c \in Clients : RunFanout(c)
    \/ RunRUnlock
    \/ \E c \in Clients, f \in Filters : Connect(c, f)
    \/ \E c \in Clients : Receive(c)
    \/ \E c \in Clients : Disconnect(c)
    \/ \E c \in Clients : RemoveAgain(c)

Spec == Init /\ [][Next]_vars

\* The steps of the goroutine started by `go h.run()` in NewHub.
HubRun ==
    \/ RunRecv
    \/ RunPersistWrite
    \/ RunPersistOpenFail
    \/ \E c \in Clients : RunFanout(c)
    \/ RunRUnlock

\* The same program with the scheduler's guarantee that the loop's goroutine
\* runs whenever it can take a step; producers and observers are under no
\* such obligation (an observer may stop reading for ever).
FairInit ==
    /\ cfg = DeepQueue
    /\ NewHub
    /\ EnvIdle
FairSpec == FairInit /\ [][Next]_vars /\ WF_vars(HubRun)

TypeOK ==
    /\ seq \in 0..MaxSeq
    /\ Len(broadcast) <= BroadcastCap
    /\ jobFiles \subseteq Jobs
    /\ clients \subseteq Clients
    /\ \A c \in Clients : Len(send[c]) <= SendCap
    /\ runPc \in {"idle", "persist", "fanout", "panic"}

\* ---- vocabulary of the properties ----------------------------------------

Ids(s) == {s[i].id : i \in DOMAIN s}
Range(s) == {s[i] : i \in DOMAIN s}

\* The events of sequence s that producer p emitted.
ByProducer(s, p) ==
    LET mine(e) == e.id \in Ids(calls[p]) IN SelectSeq(s, mine)

\* The event is still inside Emit, in h.broadcast, or in the persistence
\* block of the loop.
Pending(id) == \E p \in Producers : pend[p].id = id
Queued(id) == id \in Ids(broadcast)
InPersist(id) == runPc = "persist" /\ cur.id = id
InFanout(id) == runPc = "fanout" /\ cur.id = id

\* The event was accepted by the ingestion queue and the loop has finished
\* its persistence block (resp. its whole iteration) for it.
Persisted(id) ==
    /\ id \in 1..seq
    /\ id \notin ingestDropped
    /\ ~Pending(id) /\ ~Queued(id) /\ ~InPersist(id)
Processed(id) == Persisted(id) /\ ~InFanout(id)

\* ---- C1 ---------------------------------------------------------------------

Visited == IF runPc = "fanout" THEN clients \ todo ELSE {}

\* s is strictly increasing in id (no event twice, ids in assignment order).
Increasing(s) == \A i, k \in DOMAIN s : i < k => s[i].id < s[k].id

C3_EmitNeverBlocks ==
    /\ [](\A p \in Producers : pc[p] = "send" => ENABLED EmitSend(p))
    /\ [][\A p \in Producers :
             (pc[p] = "send" /\ pc'[p] = "idle" /\ Len(broadcast) = BroadcastCap)
             => /\ pend[p].id \in ingestDropped'
                /\ UNCHANGED <<broadcast, files, jobFiles, send, enq>>]_vars

\* An event was dropped at ingestion, the queue is saturated and the loop
\* sits in its persistence block.
C3_Witness ==
    /\ ingestDropped # {}
    /\ Len(broadcast) = BroadcastCap
    /\ runPc = "persist"
    /\ \A p \in cfg.producers : pc[p] = "idle"

\* ---- C4 ---------------------------------------------------------------------

\* C4: the loop never sends on a closed observer queue, no observer queue
\* is closed twice, and nothing is enqueued for an observer after its
\* removal.
C4_RemoveIsSafe ==
    /\ [](runPc # "panic" /\ \A c \in Clients : closeCount[c] <= 1)
    /\ [][\A c \in Clients :
             closed[c] => (enq'[c] = enq[c] /\ send'[c] = send[c])]_vars

\* An observer that had received an event was removed, remove was called
\* for it a second time, and a later event it matches has been fanned out
\* to the registry without it.
C4_Witness ==
    \E c \in Clients :
        /\ cstate[c] = "done"
        /\ closeCount[c] = 1
        /\ enq[c] # <<>>
        /\ runPc = "fanout" /\ todo = {}
        /\ Matches(c, cur)
        /\ clients # {}

\* ---- C5 ---------------------------------------------------------------------

\* The event is a record of its job's log, read back.
InLog(e) == \E i \in DOMAIN ReadBack(e.job) : ReadBack(e.job)[i].id = e.id

\* Every event a producer built, whatever became of it.
Emitted == UNION {Range(calls[p]) : p \in Producers}

\* C5 as stated: every event delivered to an observer is in its job's log.
C5_DeliveredInLog ==
    \A c \in Clients : \A e \in Range(enq[c]) : InLog(e)

\* C5 amended: every event delivered to an observer is in its job's log
\* unless opening that log failed for it; and every event the loop has
\* persisted without an open failure is in the log, whether or not any
\* observer was registered.
C5_DeliveredInLogUnlessOpenFailed ==
    /\ \A c \in Clients : \A e \in Range(enq[c]) :
           e.id \in openFailed \/ InLog(e)
    /\ \A e \in Emitted :
           (Persisted(e.id) /\ e.id \notin openFailed) => InLog(e)

\* The only observer received an event and left; a later event was then
\* processed with no observer registered, and both are in the log.
C5_Witness ==
    /\ cfg = OneObserver
    /\ cstate["c1"] = "gone" /\ filter["c1"] = ""
    /\ \E a, b \in Emitted :
           /\ a \in Range(enq["c1"]) /\ InLog(a)
           /\ a.id < b.id
           /\ Processed(b.id) /\ InLog(b)
           /\ b \notin Range(enq["c1"]) /\ <<"c1", b.id>> \notin droppedFor

\* ---- C6 ---------------------------------------------------------------------

\* C6: the event ids of every job log, and of every observer's stream, are
\* strictly increasing in file order (resp. delivery order).
C6_IdsIncreasing ==
    /\ \A j \in Jobs : Increasing(ReadBack(j))
    /\ \A c \in Clients : Increasing(enq[c])

\* ---- C7 ---------------------------------------------------------------------

\* The step is one iteration of the range loop, for observer c.
Visit(c) == runPc = "fanout" /\ c \in todo /\ c \notin todo'

\* C7: an event whose log file could not be opened is not in the log; the
\* step that meets the open failure goes on to the fan-out of that event
\* over the whole registry, where every matching observer gets it or, its
\* queue being full, has it dropped; and every event persisted without an
\* open failure (also after an earlier failure for its job) is in the log.
C7_OpenFailureSkipsPersistenceOnly ==
    /\ [](/\ \A e \in Emitted : e.id \in openFailed => ~InLog(e)
          /\ \A e \in Emitted :
                 (Persisted(e.id) /\ e.id \notin openFailed) => InLog(e)
          /\ \A c \in Visited :
                 (cur.id \in openFailed /\ Matches(c, cur)) =>
                     (cur.id \in Ids(enq[c]) \/ <<c, cur.id>> \in droppedFor))
    /\ [][/\ openFailed' # openFailed =>
                (runPc' = "fanout" /\ cur' = cur /\ todo' = clients)
           /\ \A c \in Clients :
                 (Visit(c) /\ cur.id \in openFailed /\ Matches(c, cur)
                           /\ Len(send[c]) < SendCap)
                 => enq'[c] = Append(enq[c], [id |-> cur.id, job |-> cur.job])]_vars

\* Opening the log failed for an event that an observer nevertheless
\* received; a later event of the same job is in the log.
C7_Witness ==
    \E a, b \in Emitted, c \in Clients :
        /\ a.id \in openFailed /\ a \in Range(enq[c])
        /\ b.job = a.job /\ a.id < b.id
        /\ InLog(b) /\ Processed(b.id)

\* ---- C8 ---------------------------------------------------------------------

\* C8 as stated: an event dropped for an observer whose queue is full
\* leaves that observer registered with its queue open, and is in the log.
C8_SlowObserverDropPersisted ==
    \A c \in Clients : \A e \in Emitted :
        <<c, e.id>> \in droppedFor =>
            /\ InFanout(e.id) => (c \in clients /\ ~closed[c])
            /\ InLog(e)

\* C8 amended: the drop happens only on a full queue and changes neither
\* the registry nor the observer's queue or handler, so the observer stays
\* registered with its queue open; an observer with room is always given
\* the event, earlier drops or not; and the dropped event is in the log
\* unless opening the log file failed for it.
C8_SlowObserverDropOnly ==
    /\ [](\A c \in Clients : \A e \in Emitted :
             <<c, e.id>> \in droppedFor =>
                 /\ InFanout(e.id) => (c \in clients /\ ~closed[c])
                 /\ InLog(e) \/ e.id \in openFailed)
    /\ [][\A c \in Clients :
             /\ <<c, cur.id>> \in droppedFor' \ droppedFor =>
                    /\ Len(send[c]) = SendCap
                    /\ UNCHANGED <<clients, closed, cstate, send, closeCount>>
             /\ (Visit(c) /\ Matches(c, cur) /\ Len(send[c]) < SendCap) =>
                    enq'[c] = Append(enq[c], [id |-> cur.id, job |-> cur.job])]_vars

\* An observer had an event dropped, the event is in the log, and the
\* observer, still registered, has received a later event.
C8_Witness ==
    \E c \in clients : \E a, b \in Emitted :
        /\ <<c, a.id>> \in droppedFor /\ InLog(a)
        /\ a.id < b.id /\ b \in Range(enq[c])
        /\ ~closed[c]

\* ---- C9 ---------------------------------------------------------------------

\* C9: no event with an empty job id is ever built, queued, logged or
\* delivered, and an Emit call that returns at once changes nothing of the
\* Hub, its loop or its observers.
C9_EmptyJobIsNoop ==
    /\ [](/\ \A e \in Emitted : e.job # ""
          /\ \A p \in Producers : pc[p] = "send" => pend[p].job # ""
          /\ \A i \in DOMAIN broadcast : broadcast[i].job # ""
          /\ runPc # "idle" => cur.job # ""
          /\ \A c \in Clients : \A e \in Range(enq[c]) : e.job # "")
    /\ [][noop' # noop =>
             UNCHANGED <<hubVars, procVars, calls, ingestDropped, openFailed,
                         enq, droppedFor, closeCount>>]_vars

\* An Emit call returned at once on a Hub that has a log, a queued event
\* and an observer.
C9_Witness ==
    /\ noop
    /\ \E j \in Jobs : files[j] # <<>>
    /\ broadcast # <<>>
    /\ clients # {}

\* ---- C10 --------------------------------------------------------------------

\* C10: the fan-out offers the event to every registered observer with an
\* empty filter (it is enqueued, or dropped on a full queue), and an
\* observer with a job filter never has an event of another job enqueued
\* or dropped.
C10_FilterSemantics ==
    /\ \A c \in Visited :
           filter[c] = "" =>
               (cur.id \in Ids(enq[c]) \/ <<c, cur.id>> \in droppedFor)
    /\ \A c \in Clients :
           filter[c] # "" =>
               /\ \A e \in Range(enq[c]) : e.job = filter[c]
               /\ \A e \in Emitted :
                      <<c, e.id>> \in droppedFor => e.job = filter[c]

\* The observer without filter received events of two jobs; the observer
\* filtering on one job received only that job's event.
C10_Witness ==
    /\ cfg = TwoObservers
    /\ \E a, b \in Range(enq["c1"]) :
           /\ a.job = "j1" /\ b.job = "j2"
           /\ Range(enq["c2"]) = {a}
           /\ Processed(b.id)
           /\ "c2" \in clients

\* ---- C11 --------------------------------------------------------------------
\* C11: live subscription replays no history.  An observer comes into the
\* registry with nothing delivered to it, and an event whose fan-out the loop
\* has completed stays completed and is enqueued for no observer afterwards;
\* so no observer is ever delivered an event whose fan-out was completed
\* before the observer was added.  (A step that changes none of the
\* variables Processed and enq depend on satisfies the second part trivially.)
C11_NoHistoryReplay ==
    [][/\ \A c \in clients' \ clients :
             send'[c] = <<>> /\ enq'[c] = <<>>
       /\ \/ UNCHANGED <<seq, ingestDropped, pend, broadcast, runPc, cur, enq>>
          \/ \A id \in 1..seq :
                Processed(id) =>
                    /\ Processed(id)'
                    /\ \A c \in Clients :
                          id \in Ids(enq'[c]) => id \in Ids(enq[c])]_vars

\* An observer of every job registered after event 1 had been persisted and
\* fanned out; it was delivered a later event and never event 1.
C11_Witness ==
    /\ cfg = OneObserver
    /\ filter["c1"] = ""
    /\ 1 \in Ids(ReadBack("j1")) \cup Ids(ReadBack("j2"))
    /\ Processed(1)
    /\ Ids(enq["c1"]) = {2}
    /\ <<"c1", 1>> \notin droppedFor

\* ==== the Translator: claudeStreamParser ====================================
\* Bytes are tokens: the line terminator, a blank, and tokens that stand for
\* a run of other characters.  A string is a sequence of tokens; a text of
\* several lines is a sequence of strings ("" is the empty sequence).

MaxLines == 3        \* lines the external process prints in one run

NL == "\n"
SP == " "

RECURSIVE TrimLeft(_)
TrimLeft(s) == IF s # <<>> /\ Head(s) = SP THEN TrimLeft(Tail(s)) ELSE s
RECURSIVE TrimRight(_)
TrimRight(s) ==
    IF s # <<>> /\ s[Len(s)] = SP THEN TrimRight(SubSeq(s, 1, Len(s) - 1)) ELSE s
\* strings.TrimSpace
TrimSpace(s) == TrimRight(TrimLeft(s))

\* strings.TrimSpace(text) != "" for a text of several lines.
NonBlank(text) == \E i \in DOMAIN text : TrimSpace(text[i]) # <<>>

\* truncate(s, n)
truncate(s, n) == IF Len(s) <= n THEN s ELSE Append(SubSeq(s, 1, n), "...")

\* The line {"status":"<status>","message":"<message>"} and a line that starts
\* like it but is cut short.
StatusPrefix == "{\"status\":"
StatusLine(status, message) == <<StatusPrefix, status, message, "}">>
CutStatusLine == <<StatusPrefix, "completed">>

NoTerminalState == [Status |-> "", Message |-> ""]

\* The prefix test and the json.Unmarshal of tryParseTerminalState alone: the
\* line is a status line whatever its status, the empty one included.
tryParseTerminalState_AnyStatus(line) ==
    LET t == TrimSpace(line)
    IN  IF t = <<>> \/ t[1] # StatusPrefix \/ ~(Len(t) = 4 /\ t[4] = "}")
            THEN [ok |-> FALSE, ts |-> NoTerminalState]
            ELSE [ok |-> TRUE, ts |-> [Status |-> t[2], Message |-> t[3]]]

\* tryParseTerminalState: trim, prefix test, json.Unmarshal, non-empty status.
tryParseTerminalState(line) ==
    LET t == TrimSpace(line)
        none == [ok |-> FALSE, ts |-> NoTerminalState]
    IN  IF t = <<>> \/ t[1] # StatusPrefix THEN none
        ELSE IF ~(Len(t) = 4 /\ t[4] = "}") THEN none
        ELSE IF t[2] = "" THEN none
        ELSE [ok |-> TRUE, ts |-> [Status |-> t[2], Message |-> t[3]]]

\* ---- the records of the stream -------------------------------------------

\* One element of message.content, as claudeContentBlock and
\* claudeToolResultBlock read it; ok = FALSE when it does not unmarshal.
Block(ok, type, text, name, id, desc, isErr) ==
    [ok |-> ok, Type |-> type, Text |-> text, Name |-> name, ID |-> id,
     Description |-> desc, IsError |-> isErr]
TextBlock(text) == Block(TRUE, "text", text, "", "", "", FALSE)
ThinkingBlock == Block(TRUE, "thinking", <<<<"hm">>>>, "", "", "", FALSE)
ToolUse(name, id, desc) == Block(TRUE, "tool_use", <<>>, name, id, desc, FALSE)
ToolResult(id, isErr) == Block(TRUE, "tool_result", <<<<"out">>>>, "", id, "", isErr)
BadBlock == Block(FALSE, "", <<>>, "", "", "", FALSE)

\* claudeStreamEvent
StreamEvent(type, subtype, parent, content, result, error) ==
    [Type |-> type, Subtype |-> subtype, ParentToolUseID |-> parent,
     Content |-> content, Result |-> result, Error |-> error]

\* The records the external process prints in the runs explored, by name.
StreamEvents ==
    [sys   |-> StreamEvent("system", "init", "", <<>>, <<>>, <<>>),
     rate  |-> StreamEvent("rate_limit_event", "", "", <<>>, <<>>, <<>>),
     say   |-> StreamEvent("assistant", "", "",
                   <<TextBlock(<< <<"a">>, StatusLine("completed", "m1") >>)>>,
                   <<>>, <<>>),
     say2  |-> StreamEvent("assistant", "", "",
                   <<TextBlock(<< StatusLine("error", "m2"), <<SP>>,
                                  StatusLine("", "m0"), CutStatusLine >>)>>,
                   <<>>, <<>>),
     sub   |-> StreamEvent("assistant", "", "t1",
                   <<BadBlock, ThinkingBlock,
                     TextBlock(<< <<SP, StatusPrefix, "needs_information", "m3", "}">>,
                                  <<"b">> >>)>>,
                   <<>>, <<>>),
     task  |-> StreamEvent("assistant", "", "",
                   <<ToolUse("Task", "t1", "d1"), ToolUse("Task", "t2", "d2"),
                     ToolUse("Task", "t3", ""), ToolUse("Bash", "t4", "d4")>>,
                   <<>>, <<>>),
     done1 |-> StreamEvent("user", "", "", <<ToolResult("t1", FALSE)>>, <<>>, <<>>),
     fail  |-> StreamEvent("user", "", "", <<ToolResult("t1", TRUE)>>, <<>>, <<>>),
     done  |-> StreamEvent("user", "", "",
                   <<ToolResult("t1", TRUE), ToolResult("t2", FALSE),
                     TextBlock(<< <<"a">> >>), BadBlock,
                     ToolResult("t1", FALSE), ToolResult("t1", FALSE),
                     ToolResult("t4", FALSE)>>,
                   <<>>, <<>>),
     res   |-> StreamEvent("result", "success", "", <<>>,
                   << <<"r">>, StatusLine("", "m0"), StatusLine("completed", "m4") >>,
                   <<>>),
     plain |-> StreamEvent("result", "success", "", <<>>, << <<"r">> >>, <<>>),
     err   |-> StreamEvent("result", "error", "", <<>>, <<>>, << <<"boom">> >>),
     errmax |-> StreamEvent("result", "error_max_turns", "", <<>>, <<>>,
                   << <<"boom">> >>),
     subres |-> StreamEvent("result", "success", "t1", <<>>, << <<"sr">> >>, <<>>),
     odd   |-> StreamEvent("assistant", "", "",
                   <<TextBlock(<< StatusLine("done", "m5") >>)>>, <<>>, <<>>)]

\* The text of the record called name, on one line.
Json(name) == <<"{", name, "}">>

\* json.Unmarshal([]byte(line), &evt) for a trimmed line.
UnmarshalEvent(line) ==
    IF Len(line) = 3 /\ line[1] = "{" /\ line[3] = "}" /\ line[2] \in DOMAIN StreamEvents
        THEN [err |-> FALSE, evt |-> StreamEvents[line[2]]]
        ELSE [err |-> TRUE, evt |-> StreamEvents["sys"]]

\* ---- the parser ----------------------------------------------------------

\* The arguments runClaudeCode passes to newClaudeStreamParser: the Hub and
\* the job id of the job context, the orchestrator's notifier, and the flag
\* that GeneratePlan sets and ImplementChanges clears.
ParserArgs ==
    [hub : {"hub"}, jobID : {"j1"}, notifier : {"slack"},
     suppressResultNotify : BOOLEAN]

NoTasks == [id \in {} |-> ""]

\* newClaudeStreamParser.  emitted and notified are the calls the parser has
\* made to p.hub.Emit and to p.notifier.Notify, in order.
newClaudeStreamParser(a) ==
    [hub |-> a.hub, jobID |-> a.jobID, notifier |-> a.notifier,
     suppressResultNotify |-> a.suppressResultNotify,
     lineBuf |-> <<>>, raw |-> <<>>, result |-> <<>>,
     terminalState |-> NoTerminalState, pendingTaskDescs |-> NoTasks,
     emitted |-> <<>>, notified |-> <<>>]

\* An event of type claude_code_line: the key of its payload, the payload
\* text and, for agents_finished, the count.
Ev(key, text, n) == [key |-> key, text |-> text, n |-> n]

HasJob(p) == p.hub # "nil" /\ p.jobID # ""
HubEmit(p, ev) == [p EXCEPT !.emitted = Append(@, ev)]
Notify(p, text) == [p EXCEPT !.notified = Append(@, text)]

\* claudeStreamParser.emit
emit(p, text) == IF ~HasJob(p) THEN p ELSE HubEmit(p, Ev("text", text, 0))

\* claudeStreamParser.emitTool
emitTool(p, name) == IF ~HasJob(p) THEN p ELSE HubEmit(p, Ev("tool_name", name, 0))

RECURSIVE emitLines_LastFirst(_, _)
\* Faulty variant: the lines of a text are emitted from the last to the first.
emitLines_LastFirst(p, lines) ==
    IF lines = <<>> THEN p
    ELSE LET q == emitLines_LastFirst(p, Tail(lines))
         IN  IF TrimSpace(Head(lines)) # <<>> THEN emit(q, Head(lines)) ELSE q

RECURSIVE emitLines(_, _)
\* for _, textLine := range lines { if TrimSpace(textLine) != "" { p.emit } }
emitLines(p, lines) ==
    IF lines = <<>> THEN p
    ELSE emitLines(IF TrimSpace(Head(lines)) # <<>> THEN emit(p, Head(lines)) ELSE p,
                   Tail(lines))

IsStatusLine(l) == tryParseTerminalState(l).ok
NotStatusLine(l) == ~tryParseTerminalState(l).ok

\* processLine, case "assistant", block type "text".
textBlock(p, evt, block) ==
    LET cands == SelectSeq(block.Text, IsStatusLine)
        filteredLines == SelectSeq(block.Text, NotStatusLine)
        p1 == IF cands = <<>> THEN p
              ELSE [p EXCEPT !.terminalState =
                                 tryParseTerminalState(cands[Len(cands)]).ts]
        p2 == IF p1.notifier # "nil" /\ evt.ParentToolUseID = ""
                   /\ NonBlank(filteredLines)
                  THEN Notify(p1, filteredLines) ELSE p1
    IN  emitLines(p2, filteredLines)

\* processLine, case "assistant", block type "tool_use".
toolUseBlock(p, block) ==
    LET p1 == IF block.Name = "Task" /\ block.ID # "" /\ block.Description # ""
                  THEN [p EXCEPT !.pendingTaskDescs =
                          [id \in DOMAIN @ \cup {block.ID} |->
                              IF id = block.ID THEN block.Description ELSE @[id]]]
                  ELSE p
    IN  emitTool(p1, <<block.Name>>)

RECURSIVE assistantBlocks(_, _, _)
\* processLine, case "assistant": the loop over evt.Message.Content.
assistantBlocks(p, evt, blocks) ==
    IF blocks = <<>> THEN p
    ELSE LET b == Head(blocks)
             p1 == IF ~b.ok THEN p
                   ELSE IF b.Type = "text" THEN textBlock(p, evt, b)
                   ELSE IF b.Type = "thinking"
                       THEN (IF HasJob(p) THEN HubEmit(p, Ev("thinking", b.Text[1], 0))
                                          ELSE p)
                   ELSE IF b.Type = "tool_use" THEN toolUseBlock(p, b)
                   ELSE p
         IN  assistantBlocks(p1, evt, Tail(blocks))

\* Faulty variant: a sub-task that was reported stays in the map.
resolve_Keep(p, id) == p

\* delete(p.pendingTaskDescs, block.ToolUseID)
resolve(p, id) ==
    [p EXCEPT !.pendingTaskDescs = [x \in DOMAIN @ \ {id} |-> @[x]]]

\* Faulty variant: the aggregated event is emitted for every tool-result
\* record, also when it resolved nothing.
agentsFinished_Always(p, completed) ==
    IF HasJob(p)
        THEN HubEmit(p, Ev("agents_finished", completed, Len(completed)))
        ELSE p

\* processLine, case "user", after the loop: the aggregated event.
agentsFinished(p, completed) ==
    IF Len(completed) > 0 /\ HasJob(p)
        THEN HubEmit(p, Ev("agents_finished", completed, Len(completed)))
        ELSE p

\* Faulty variant: an error result also takes its invocation out of the map.
toolError_Resolves(p, b) ==
    resolve(IF HasJob(p)
               THEN HubEmit(p, Ev("tool_error", truncate(b.Text[1], 300), 0))
               ELSE p,
            b.ID)

\* processLine, case "user", a block with is_error: the tool_error event,
\* then `continue`.
toolError(p, b) ==
    IF HasJob(p)
        THEN HubEmit(p, Ev("tool_error", truncate(b.Text[1], 300), 0))
        ELSE p

RECURSIVE userBlocks(_, _, _)
\* processLine, case "user": the loop over the tool_result blocks (ID is the
\* block's tool_use_id), then the aggregated event.
userBlocks(p, blocks, completed) ==
    IF blocks = <<>> THEN agentsFinished(p, completed)
    ELSE LET b == Head(blocks)
             rest == Tail(blocks)
         IN  IF ~b.ok \/ b.Type # "tool_result" THEN userBlocks(p, rest, completed)
             ELSE IF b.IsError THEN userBlocks(toolError(p, b), rest, completed)
             ELSE IF b.ID \in DOMAIN p.pendingTaskDescs
                 THEN userBlocks(resolve(p, b.ID), rest,
                                 Append(completed, p.pendingTaskDescs[b.ID]))
             ELSE userBlocks(p, rest, completed)

\* processLine, case "result".
resultRecord(p, evt) ==
    LET res == IF evt.Subtype = "error" /\ evt.Error # <<>>
                   THEN evt.Error ELSE evt.Result
        cands == SelectSeq(res, IsStatusLine)
        p1 == [p EXCEPT !.result = res]
        p2 == IF p1.terminalState.Status = "" /\ cands # <<>>
                  THEN [p1 EXCEPT !.terminalState = tryParseTerminalState(cands[1]).ts]
                  ELSE p1
        p3 == emitLines(p2, res)
    IN  IF p3.notifier # "nil" /\ NonBlank(res) /\ ~p3.suppressResultNotify
            THEN Notify(p3, res) ELSE p3

\* Faulty variant: a line that does not unmarshal is dropped.
processLine_DropNoise(p, rawLine) ==
    LET line == TrimSpace(rawLine)
        u == UnmarshalEvent(line)
    IN  IF line = <<>> \/ u.err THEN p
        ELSE IF u.evt.Type = "assistant" THEN assistantBlocks(p, u.evt, u.evt.Content)
        ELSE IF u.evt.Type = "user" THEN userBlocks(p, u.evt.Content, <<>>)
        ELSE IF u.evt.Type = "result" THEN resultRecord(p, u.evt)
        ELSE p

\* claudeStreamParser.processLine
processLine(p, rawLine) ==
    LET line == TrimSpace(rawLine)
        u == UnmarshalEvent(line)
    IN  IF line = <<>> THEN p
        ELSE IF u.err THEN emit(p, line)
        ELSE IF u.evt.Type = "assistant" THEN assistantBlocks(p, u.evt, u.evt.Content)
        ELSE IF u.evt.Type = "user" THEN userBlocks(p, u.evt.Content, <<>>)
        ELSE IF u.evt.Type = "result" THEN resultRecord(p, u.evt)
        ELSE p

RECURSIVE writeBytes(_, _)
\* The byte loop of Write.
writeBytes(p, data) ==
    IF data = <<>> THEN p
    ELSE IF Head(data) = NL
        THEN writeBytes([processLine(p, p.lineBuf) EXCEPT !.lineBuf = <<>>], Tail(data))
        ELSE writeBytes([p EXCEPT !.lineBuf = Append(@, Head(data))], Tail(data))

\* Faulty variant: the partial line is a local of the call and starts empty in
\* every Write.
Write_LocalBuf(p, data) ==
    writeBytes([p EXCEPT !.raw = @ \o data, !.lineBuf = <<>>], data)

\* claudeStreamParser.Write
Write(p, data) == writeBytes([p EXCEPT !.raw = @ \o data], data)

RECURSIVE SplitLines(_, _)
\* A string as the text of its lines (strings.Split(s, "\n")); cur is the
\* line being collected.
SplitLines(str, line) ==
    IF str = <<>> THEN <<line>>
    ELSE IF Head(str) = NL THEN <<line>> \o SplitLines(Tail(str), <<>>)
    ELSE SplitLines(Tail(str), Append(line, Head(str)))

\* claudeStreamParser.output
output(p) == IF p.result # <<>> THEN p.result
             ELSE IF p.raw = <<>> THEN <<>> ELSE SplitLines(p.raw, <<>>)

\* ---- one run of the external process -------------------------------------

\* What the process prints in the runs explored: up to MaxLines lines taken
\* from one of five repertoires, the last line with or without its
\* terminator.
StatusRun == {Json("say"), Json("say2"), Json("sub"), Json("res")}
TaskRun == {Json("task"), Json("done1"), Json("done"), <<SP, "x", SP>>}
ResultRun == {Json("err"), Json("errmax"), Json("plain"), <<"{", "res">>}
QuietRun == {Json("sys"), Json("rate"), <<SP>>, <<"x">>}
OddRun == {Json("subres"), Json("odd"), Json("sub")}
RetryRun == {Json("task"), Json("fail"), Json("done1")}
Runs == {StatusRun, TaskRun, ResultRun, QuietRun, OddRun, RetryRun}

RECURSIVE Render(_, _)
Render(lines, terminated) ==
    IF lines = <<>> THEN <<>>
    ELSE IF Len(lines) = 1
        THEN Head(lines) \o (IF terminated THEN <<NL>> ELSE <<>>)
        ELSE Head(lines) \o <<NL>> \o Render(Tail(lines), terminated)

Streams ==
    UNION {{Render(ls, t) : ls \in UNION {[1..n -> run] : n \in 0..MaxLines},
                            t \in BOOLEAN} : run \in Runs}

\* runClaudeCode up to cmd.Run(): a fresh parser is wired to the process's
\* stdout and stderr.  The Hub is as NewHub left it.
TranslatorInit ==
    /\ cfg = OneObserver
    /\ NewHub
    /\ logf = <<>> /\ scan = NoScan
    /\ fstat = "present" /\ resp = NoResponse
    /\ OrchIdle
    /\ NoHandles
    /\ stdout \in Streams
    /\ fed = 0
    /\ exited = FALSE
    /\ \E a \in ParserArgs : sp = newClaudeStreamParser(a)

\* cmd.Run copies the next n bytes of the process's output in one Write call.
CmdWrite(n) ==
    /\ ~exited
    /\ n \in 0..(Len(stdout) - fed)
    /\ sp' = Write(sp, SubSeq(stdout, fed + 1, fed + n))
    /\ fed' = fed + n
    /\ UNCHANGED <<cfg, hubVars, procVars, histVars, listVars, apiVars, orchVars, lifeVars, stdout, exited>>

\* The process has ended and all its output was copied: cmd.Run returns and
\* runClaudeCode returns the parser as it is.
CmdExit ==
    /\ ~exited
    /\ fed = Len(stdout)
    /\ exited' = TRUE
    /\ UNCHANGED <<cfg, hubVars, procVars, histVars, listVars, apiVars, orchVars, lifeVars, stdout, fed, sp>>

TranslatorNext ==
    \/ \E n \in 0..Len(stdout) : CmdWrite(n)
    \/ CmdExit

TranslatorSpec == TranslatorInit /\ [][TranslatorNext]_vars

\* ---- vocabulary of the Translator's properties ---------------------------

\* What a run leaves behind: the Emit calls, the Terminal State, the result
\* text and the pending sub-tasks.
Outcome(p) ==
    [emitted |-> p.emitted, terminalState |-> p.terminalState,
     result |-> p.result, pendingTaskDescs |-> p.pendingTaskDescs]

\* The parser of this run before its first Write.
FreshParser ==
    newClaudeStreamParser([hub |-> sp.hub, jobID |-> sp.jobID,
                           notifier |-> sp.notifier,
                           suppressResultNotify |-> sp.suppressResultNotify])

\* ---- C12 -----------------------------------------------------------------
\* C12: chunk-boundary independence.  However the bytes copied so far were
\* split into Write calls (mid-line splits and empty chunks included), the
\* events emitted, the Terminal State, the result text and the pending map
\* are those of a single Write of the same bytes.
C12_ChunkIndependent ==
    Outcome(sp) = Outcome(Write(FreshParser, SubSeq(stdout, 1, fed)))

\* A Write call ended in the middle of a record line after an earlier record
\* had taken effect: the parser holds the first part of the line.
C12_Witness ==
    /\ stdout = Json("say") \o <<NL>> \o Json("res") \o <<NL>>
    /\ fed = 6
    /\ sp.lineBuf = <<"{", "res">>
    /\ sp.terminalState.Status = "completed"
    /\ Len(sp.emitted) = 1

\* ---- the lines and records of a run ----------------------------------------

\* The lines of the copied output that were followed by a line terminator.
CompleteLines ==
    LET ls == SplitLines(SubSeq(stdout, 1, fed), <<>>)
    IN  SubSeq(ls, 1, Len(ls) - 1)

IsRecord(l) == ~UnmarshalEvent(TrimSpace(l)).err
RecordOf(l) == UnmarshalEvent(TrimSpace(l)).evt
IsNoise(l) == TrimSpace(l) # <<>> /\ ~IsRecord(l)

\* The records among the complete lines, in stream order.
Records ==
    LET recs == SelectSeq(CompleteLines, IsRecord)
    IN  [i \in DOMAIN recs |-> RecordOf(recs[i])]

RECURSIVE BlockLines(_)
\* The text lines of the text segments of an assistant record, in order.
BlockLines(blocks) ==
    IF blocks = <<>> THEN <<>>
    ELSE (IF Head(blocks).ok /\ Head(blocks).Type = "text"
             THEN Head(blocks).Text ELSE <<>>) \o BlockLines(Tail(blocks))

\* The text a record carries: the text segments of an assistant turn, or the
\* payload of a final result (success or error, whichever is present).
TextOf(evt) ==
    IF evt.Type = "assistant" THEN BlockLines(evt.Content)
    ELSE IF evt.Type = "result"
        THEN (IF evt.Result # <<>> THEN evt.Result ELSE evt.Error)
    ELSE <<>>

RECURSIVE AllText(_)
AllText(recs) == IF recs = <<>> THEN <<>> ELSE TextOf(Head(recs)) \o AllText(Tail(recs))

\* The Terminal State candidates of the records processed, in stream order.
Candidates == SelectSeq(AllText(Records), IsStatusLine)

\* The texts of the process-output-line events emitted so far.
EmittedTexts == {sp.emitted[i].text : i \in {k \in DOMAIN sp.emitted : sp.emitted[k].key = "text"}}

\* ---- C13 -----------------------------------------------------------------
\* C13: when the process has ended with a non-empty unterminated final line,
\* the run's outcome is the one it would have had if that line had been
\* followed by a line terminator.
C13_FinalLineProcessed ==
    (exited /\ sp.lineBuf # <<>>) =>
        Outcome(sp) = Outcome(Write(FreshParser, stdout \o <<NL>>))

\* ---- C14 -----------------------------------------------------------------
\* C14: a line of an assistant text segment or of the final-result text that
\* begins with the status prefix, parses and has a non-empty status is
\* captured (a Terminal State is held) and is not emitted as a
\* process-output line; the same line with an empty status is emitted as a
\* process-output line and is not what the Terminal State holds.
C14_StatusLineCapturedNotEmitted ==
    \A i \in DOMAIN AllText(Records) :
        LET l == AllText(Records)[i]
        IN  /\ IsStatusLine(l) =>
                  (sp.terminalState.Status # "" /\ l \notin EmittedTexts)
            /\ (tryParseTerminalState_AnyStatus(l).ok /\ ~IsStatusLine(l)) =>
                  (l \in EmittedTexts
                     /\ sp.terminalState # tryParseTerminalState_AnyStatus(l).ts)

\* ---- C15 -----------------------------------------------------------------
\* C15: first Terminal State wins.  At every moment the Terminal State held is
\* the first candidate of the records processed so far, in stream order (and
\* none when there was no candidate), so a later candidate never replaces it.
C15_FirstCandidateWins ==
    sp.terminalState =
        (IF Candidates = <<>> THEN NoTerminalState
                              ELSE tryParseTerminalState(Candidates[1]).ts)

\* ---- C16 -----------------------------------------------------------------
\* C16: when the last final-result record processed carries an error payload,
\* an empty success payload and no status line, the exposed result text is
\* the error payload, whatever the record's subtype, and it captures no
\* Terminal State.
C16_ErrorPayloadIsResult ==
    LET rs == SelectSeq(Records, LAMBDA r : r.Type = "result")
        last == rs[Len(rs)]
    IN  (rs # <<>> /\ last.Error # <<>> /\ last.Result = <<>>
           /\ SelectSeq(last.Error, IsStatusLine) = <<>>) =>
            /\ output(sp) = last.Error
            /\ Candidates = <<>> => sp.terminalState = NoTerminalState

\* ---- C17 -----------------------------------------------------------------
TaskIds == {"t1", "t2", "t3", "t4"}

\* The recorded invocations of sub-task x: <<record, block>>.
RecordingsIn(recs, x) ==
    {r \in UNION {{<<i, k>> : k \in DOMAIN recs[i].Content} : i \in DOMAIN recs} :
        LET b == recs[r[1]].Content[r[2]]
        IN  /\ recs[r[1]].Type = "assistant"
            /\ b.ok /\ b.Type = "tool_use" /\ b.Name = "Task"
            /\ b.ID = x /\ b.Description # ""}

\* Record j holds a tool result for x that signals an error (isErr) or
\* does not.
ResultFor(recs, j, x, isErr) ==
    /\ recs[j].Type = "user"
    /\ \E k \in DOMAIN recs[j].Content :
          LET b == recs[j].Content[k]
          IN  b.ok /\ b.Type = "tool_result" /\ b.IsError = isErr /\ b.ID = x

\* x was invoked, a later record resolved it, and it was not invoked again
\* after that record.
ResolvedAfter(recs, x) ==
    \E r \in RecordingsIn(recs, x), j \in DOMAIN recs :
        /\ r[1] < j /\ ResultFor(recs, j, x, FALSE)
        /\ \A r2 \in RecordingsIn(recs, x) : r2[1] < j

\* How many times description d is listed by the aggregated events emitted.
Reports(d) ==
    Cardinality(UNION {{<<i, k>> : k \in {k \in DOMAIN sp.emitted[i].text :
                                           sp.emitted[i].key = "agents_finished"
                                             /\ sp.emitted[i].text[k] = d}} :
                          i \in DOMAIN sp.emitted})

\* C17: each recorded sub-task invocation is reported as finished at most
\* once, so a result that references it again reports nothing; and an
\* invocation followed by a non-error result for its id has been reported
\* (exactly once when it was invoked once) and is no longer pending.
C17_SubTaskReportedOnce ==
    LET recs == Records
    IN  \A x \in TaskIds : \A r \in RecordingsIn(recs, x) :
            LET d == recs[r[1]].Content[r[2]].Description
            IN  /\ Reports(d) <= Cardinality(RecordingsIn(recs, x))
                /\ ResolvedAfter(recs, x) =>
                      (x \notin DOMAIN sp.pendingTaskDescs /\ Reports(d) >= 1)

\* t1 and t2 were invoked, then two result records referenced t1: one
\* aggregated event lists d1 once, t1 is gone and t2 is still pending.
C17_Witness ==
    /\ CompleteLines = <<Json("task"), Json("done1"), Json("done1")>>
    /\ Reports("d1") = 1
    /\ sp.emitted[Len(sp.emitted)] = Ev("agents_finished", <<"d1">>, 1)
    /\ DOMAIN sp.pendingTaskDescs = {"t2"}

\* ---- C18 -----------------------------------------------------------------
RECURSIVE Unlines(_)
\* The lines, each followed by its line terminator.
Unlines(ls) == IF ls = <<>> THEN <<>> ELSE Head(ls) \o <<NL>> \o Unlines(Tail(ls))

NoiseLines == SelectSeq(CompleteLines, IsNoise)
NotNoise(l) == ~IsNoise(l)
IsNoiseEvent(e) ==
    e.key = "text" /\ \E i \in DOMAIN NoiseLines : e.text = TrimSpace(NoiseLines[i])
NotNoiseEvent(e) == ~IsNoiseEvent(e)

\* The run with the lines that are not records taken out of the stream.
WithoutNoise == Write(FreshParser, Unlines(SelectSeq(CompleteLines, NotNoise)))

IsSubTask(l) == IsRecord(l) /\ RecordOf(l).ParentToolUseID # ""
NotSubTask(l) == ~IsSubTask(l)

\* The run with the records that carry a parent-invocation reference taken
\* out of the stream.
TopLevelOnly == Write(FreshParser, Unlines(SelectSeq(CompleteLines, NotSubTask)))

\* C23: no record that carries a parent-invocation reference causes a
\* notification: the notifications of the run are those of the run without
\* these records.
C23_SubTaskNeverNotified == sp.notified = TopLevelOnly.notified

\* ---- C24 -----------------------------------------------------------------
\* The parser of this run before its first Write, with the side-channel open.
Unsuppressed == [FreshParser EXCEPT !.suppressResultNotify = FALSE]

\* C24: in a run that was started with the side-channel suppressed, no
\* record causes a notification, and the events emitted are those of the
\* same run with the side-channel open.
C24_PlanningModeSilent ==
    sp.suppressResultNotify =>
        /\ sp.notified = <<>>
        /\ sp.emitted = Write(Unsuppressed, SubSeq(stdout, 1, fed)).emitted

\* ---- C25 -----------------------------------------------------------------
\* C25: no text passed to the notification sink holds a line that is
\* recognized as a Terminal State record.
C25_NotificationsHaveNoStatusLine ==
    \A i \in DOMAIN sp.notified :
        \A k \in DOMAIN sp.notified[i] : ~IsStatusLine(sp.notified[i][k])

\* ==== the job list: Hub.ServeJobList =======================================
\* The data directory holds one log file, job.jsonl.  A line of it is an
\* Event record, a line that does not unmarshal ("corrupt"), or an Event
\* record whose line does not fit the scanner's buffer of 1 MiB ("long").
\* A payload field that is absent is "" (task) or -1 (the two costs).

MaxLog == 3          \* lines of the log file

LogEvent(type, task, cost, total) ==
    [kind |-> "event", Type |-> type, task |-> task,
     cost_usd |-> cost, total_cost_usd |-> total]
CorruptLine == [kind |-> "corrupt", Type |-> "", task |-> "",
                cost_usd |-> -1, total_cost_usd |-> -1]
LongLine == [LogEvent("claude_code_line", "", -1, -1) EXCEPT !.kind = "long"]

\* The lines found in the logs explored.
LogLines ==
    {LogEvent("job_started", "fix bug", -1, -1),
     LogEvent("llm_response", "", 1, -1),
     LogEvent("llm_response", "", 2, -1),
     LogEvent("tool_started", "", -1, -1),
     LogEvent("job_completed", "", -1, 5),
     LogEvent("job_completed", "", -1, -1),
     LogEvent("job_error", "", -1, 4),
     CorruptLine,
     LongLine}
Logs == UNION {[1..n -> LogLines] : n \in 0..MaxLog}

\* The locals of the handler for one file: summary, cost and first.
NewSummary ==
    [Task |-> "", Status |-> "running", CostUSD |-> 0, cost |-> 0, first |-> TRUE]

\* The body of the scan loop for a line that unmarshalled into e.
scanEvent(acc, e) ==
    LET a1 == IF acc.first THEN [acc EXCEPT !.Task = e.task, !.first = FALSE] ELSE acc
    IN  IF e.Type = "llm_response"
            THEN (IF e.cost_usd >= 0 THEN [a1 EXCEPT !.cost = @ + e.cost_usd] ELSE a1)
        ELSE IF e.Type = "job_completed"
            THEN [a1 EXCEPT !.Status = "completed",
                            !.cost = IF e.total_cost_usd >= 0 THEN e.total_cost_usd ELSE @]
        ELSE IF e.Type = "job_error"
            THEN [a1 EXCEPT !.Status = "error",
                            !.cost = IF e.total_cost_usd >= 0 THEN e.total_cost_usd ELSE @]
        ELSE a1

RECURSIVE scanLines(_, _)
\* for scanner.Scan() { ... }: Scan returns false at the end of the file and
\* at a line that does not fit the buffer; a line that does not unmarshal is
\* skipped.
scanLines(acc, lines) ==
    IF lines = <<>> \/ Head(lines).kind = "long" THEN acc
    ELSE IF Head(lines).kind = "corrupt" THEN scanLines(acc, Tail(lines))
    ELSE scanLines(scanEvent(acc, Head(lines)), Tail(lines))

\* The jobSummary appended for the file.
summarize(lines) ==
    LET acc == scanLines(NewSummary, lines)
    IN  [Task |-> acc.Task, Status |-> acc.Status, CostUSD |-> acc.cost]

ListInit ==
    /\ cfg = OneObserver
    /\ NewHub
    /\ stdout = <<>> /\ fed = 0 /\ exited = FALSE /\ sp = NoParser
    /\ logf \in Logs
    /\ scan = NoScan
    /\ fstat = "present" /\ resp = NoResponse
    /\ OrchIdle
    /\ NoHandles

\* GET /api/jobs when the file opens: the response lists the job.
ServeJobList ==
    /\ scan.at = "none"
    /\ scan' = [at |-> "done", jobs |-> <<summarize(logf)>>]
    /\ UNCHANGED <<cfg, hubVars, procVars, histVars, spVars, apiVars, orchVars, lifeVars, logf>>

\* GET /api/jobs when os.Open fails for the file: the entry is passed over
\* and the response is the empty list.
ServeJobListNoOpen ==
    /\ scan.at = "none"
    /\ scan' = [at |-> "done", jobs |-> <<>>]
    /\ UNCHANGED <<cfg, hubVars, procVars, histVars, spVars, apiVars, orchVars, lifeVars, logf>>

ListNext == ServeJobList \/ ServeJobListNoOpen

ListSpec == ListInit /\ [][ListNext]_vars

\* ---- vocabulary of the list's properties ----------------------------------
IsLogEvent(l) == l.kind # "corrupt"
LogEvents == SelectSeq(logf, IsLogEvent)
IsTerminal(e) == e.Type \in {"job_completed", "job_error"}
StatusOf(e) == IF e.Type = "job_completed" THEN "completed" ELSE "error"
Reported == scan.at = "done" /\ scan.jobs # <<>>

RECURSIVE SumCost(_)
\* The sum of the cost fields of the llm-response events.
SumCost(evs) ==
    IF evs = <<>> THEN 0
    ELSE (IF Head(evs).Type = "llm_response" /\ Head(evs).cost_usd >= 0
             THEN Head(evs).cost_usd ELSE 0) + SumCost(Tail(evs))

\* ---- C19 -----------------------------------------------------------------
\* C19: the status reported for a job is running exactly when its log holds
\* no job-completed and no job-error event, and otherwise it is the status
\* of a terminal event of the log; a log of job-started{task} followed by
\* job-completed{total cost c} is reported completed, with cost c and that
\* task.
C19_StatusIsFoldOfLog ==
    Reported =>
        LET s == scan.jobs[1]
            terms == SelectSeq(LogEvents, IsTerminal)
        IN  /\ (s.Status = "running") <=> (terms = <<>>)
            /\ terms # <<>> => \E i \in DOMAIN terms : s.Status = StatusOf(terms[i])
            /\ logf = <<LogEvent("job_started", "fix bug", -1, -1),
                        LogEvent("job_completed", "", -1, 5)>>
                  => s = [Task |-> "fix bug", Status |-> "completed", CostUSD |-> 5]

\* ---- C20 -----------------------------------------------------------------
\* C20: the cost reported is the total carried by a terminal event when the
\* log holds one, wherever the llm-response events stand, and the sum of the
\* llm-response costs otherwise.
C20_CostIsTotalOrSum ==
    Reported =>
        LET s == scan.jobs[1]
            totals == {LogEvents[i].total_cost_usd :
                          i \in {k \in DOMAIN LogEvents :
                                   IsTerminal(LogEvents[k])
                                     /\ LogEvents[k].total_cost_usd >= 0}}
        IN  IF totals # {} THEN s.CostUSD \in totals
                           ELSE s.CostUSD = SumCost(LogEvents)

\* ==== the history of a job: Hub.ServeJobAPI ================================
\* GET /api/jobs/{id}.  The file asked for is the log file of the list
\* above; os.Open finds it, finds nothing at its path, or fails otherwise.

HistoryIds == {"", "job"}
FileStats == {"present", "missing", "unreadable"}

RECURSIVE readEvents(_)
\* for scanner.Scan() { ... }: the scanner's buffer is 1 MiB, so Scan returns
\* false at the end of the file and at a line that does not fit; a line that
\* does not unmarshal is passed over.
readEvents(lines) ==
    IF lines = <<>> \/ Head(lines).kind = "long" THEN <<>>
    ELSE IF Head(lines).kind = "corrupt" THEN readEvents(Tail(lines))
    ELSE <<Head(lines)>> \o readEvents(Tail(lines))

\* if events == nil { events = []Event{} }; json.NewEncoder(w).Encode(events)
encode(id, events) ==
    [id |-> id, code |-> 200, body |-> "list", events |-> events]

\* The response of the handler for the path suffix id.
respond(id, st, lines) ==
    IF id = "" THEN [id |-> id, code |-> 400, body |-> "missing job id", events |-> <<>>]
    ELSE IF st = "missing"
        THEN [id |-> id, code |-> 404, body |-> "job not found", events |-> <<>>]
    ELSE IF st = "unreadable"
        THEN [id |-> id, code |-> 500, body |-> "internal error", events |-> <<>>]
    ELSE encode(id, readEvents(lines))

HistoryInit ==
    /\ cfg = OneObserver
    /\ NewHub
    /\ stdout = <<>> /\ fed = 0 /\ exited = FALSE /\ sp = NoParser
    /\ scan = NoScan
    /\ fstat \in FileStats
    /\ logf \in (IF fstat = "present" THEN Logs ELSE {<<>>})
    /\ resp = NoResponse
    /\ OrchIdle
    /\ NoHandles

ServeJobAPI(id) ==
    /\ resp = NoResponse
    /\ resp' = respond(id, fstat, logf)
    /\ UNCHANGED <<cfg, hubVars, procVars, histVars, spVars, listVars, orchVars, lifeVars, fstat>>

HistoryNext == \E id \in HistoryIds : ServeJobAPI(id)

HistorySpec == HistoryInit /\ [][HistoryNext]_vars

\* ---- vocabulary of the history's properties --------------------------------
Parseable(l) == l.kind = "event"
Served == resp.code # 0 /\ resp.id # ""
\* The parseable event records of some lines, in their order.
Parsed(lines) == SelectSeq(lines, Parseable)

\* ---- C21 -----------------------------------------------------------------
\* C21: a request for a job whose log file exists is answered with the list
\* of the parseable event records of the file in file order, which is the
\* empty list and no error when there is none; when no file exists it is
\* answered not-found; any other open failure is answered as a server error.
C21_HistoryOutcomes ==
    Served =>
        /\ fstat = "present" =>
              resp.code = 200 /\ resp.body = "list" /\ resp.events = Parsed(logf)
        /\ fstat = "missing" => resp.code = 404 /\ resp.body = "job not found"
        /\ fstat = "unreadable" => resp.code = 500 /\ resp.body = "internal error"

\* ---- C22 -----------------------------------------------------------------
\* C22: a line that is unparseable, partial or over-long is skipped wherever
\* it stands: the list returned is made of the records returned for the
\* lines before it followed by those for the lines after it, and a file
\* without such a line is returned whole.
C22_HistoryToleratesCorruption ==
    Served /\ resp.code = 200 =>
        /\ (\A i \in DOMAIN logf : Parseable(logf[i])) => resp.events = logf
        /\ \A i \in DOMAIN logf :
              ~Parseable(logf[i]) =>
                  resp.events = Parsed(SubSeq(logf, 1, i - 1))
                                   \o Parsed(SubSeq(logf, i + 1, Len(logf)))

\* ==== the orchestrator: Orchestrator.Orchestrate ============================
\* Every mention is handled in a goroutine of its own (go handleMention), so
\* the runs of two mentions interleave.  A run is modelled in steps that end
\* where it waits for the outside world: the lookup of the thread's job, the
\* creation of a job, the clone, the external process, the pull request.

\* generateJobID(): a fresh UUID, here named after the mention.
generateJobID(m) == IF m = "m1" THEN "job1" ELSE "job2"

\* computeIntentCost(...): the cost of the run's intent call.
computeIntentCost(m) == IF m = "m1" THEN 1 ELSE 2

\* Hub.ActiveJobForThread, Hub.RegisterThreadJob, Hub.UnregisterThreadJob
ActiveJobForThread(tj, t) == tj[t]
RegisterThreadJob(tj, t, j) == [tj EXCEPT ![t] = j]
UnregisterThreadJob(tj, t) == [tj EXCEPT ![t] = ""]

\* One call to Hub.Emit by the run of mention m: job id, event type and the
\* payload fields the properties read (absent: "", FALSE, -1, <<>>).
JobEvent(m, job, type, tool, isErr, cost, total, text) ==
    [by |-> m, job |-> job, Type |-> type, tool_name |-> tool, is_error |-> isErr,
     cost_usd |-> cost, total_cost_usd |-> total, text |-> text]
Started(m, job, tool) == JobEvent(m, job, "tool_started", tool, FALSE, -1, -1, <<>>)
Completed(m, job, tool, isErr) ==
    JobEvent(m, job, "tool_completed", tool, isErr, -1, -1, <<>>)
Terminal(m, job, type) ==
    JobEvent(m, job, type, "", FALSE, -1, computeIntentCost(m), <<>>)

\* The events the parser of the run emitted, as calls to Hub.Emit.
ParserEvents(m, job, p) ==
    [i \in DOMAIN p.emitted |->
        JobEvent(m, job, "claude_code_line", "", FALSE, -1, -1, p.emitted[i].text)]

\* ---- GeneratePlan and ImplementChanges ------------------------------------
RECURSIVE DropBlankHead(_)
DropBlankHead(text) ==
    IF text # <<>> /\ TrimSpace(Head(text)) = <<>> THEN DropBlankHead(Tail(text))
    ELSE text
RECURSIVE DropBlankTail(_)
DropBlankTail(text) ==
    IF text # <<>> /\ TrimSpace(text[Len(text)]) = <<>>
        THEN DropBlankTail(SubSeq(text, 1, Len(text) - 1))
        ELSE text
\* strings.TrimSpace for a text of several lines.
TrimText(text) ==
    LET t == DropBlankTail(DropBlankHead(text))
    IN  [i \in DOMAIN t |->
            LET a == IF i = 1 THEN TrimLeft(t[i]) ELSE t[i]
            IN  IF i = Len(t) THEN TrimRight(a) ELSE a]

\* filterTerminalStateJSON
filterTerminalStateJSON(text) == TrimText(SelectSeq(text, NotStatusLine))

\* What the external process did in one run: its output, whether cmd.Run
\* returned an error (timeout kill, non-zero exit), and what git status
\* reports afterwards.
ProcOutcome(line, terminated, runErr, git) ==
    [stdout |-> Render(<<line>>, terminated), runErr |-> runErr, git |-> git]
ProcOutcomes ==
    {ProcOutcome(Json("say"), TRUE, FALSE, "clean"),
     ProcOutcome(Json("sub"), TRUE, FALSE, "clean"),
     ProcOutcome(Json("say2"), TRUE, FALSE, "clean"),
     ProcOutcome(Json("odd"), TRUE, FALSE, "clean"),
     ProcOutcome(Json("plain"), TRUE, FALSE, "dirty"),
     ProcOutcome(Json("plain"), TRUE, FALSE, "fail"),
     ProcOutcome(Json("say"), TRUE, TRUE, "clean"),
     ProcOutcome(<<"x">>, FALSE, TRUE, "clean")}

\* runClaudeCode: the parser after cmd.Run has copied the whole output.
runClaudeCode(job, o, suppressResultNotify) ==
    Write(newClaudeStreamParser([hub |-> "hub", jobID |-> job, notifier |-> "slack",
                                 suppressResultNotify |-> suppressResultNotify]),
          o.stdout)

\* The (TerminalState, error) pair the two functions return.
Returned(err, status, message) == [err |-> err, Status |-> status, Message |-> message]
FromParser(p) == Returned(FALSE, p.terminalState.Status, << <<p.terminalState.Message>> >>)

\* GeneratePlan, from the return of runClaudeCode on.
GeneratePlan(p, o) ==
    IF o.runErr THEN Returned(TRUE, "", <<>>)
    ELSE IF p.terminalState.Status # "" /\ p.terminalState.Status # "completed"
        THEN FromParser(p)
    ELSE IF p.terminalState.Status # ""
        THEN (IF NonBlank(filterTerminalStateJSON(output(p)))
                 THEN Returned(FALSE, "completed", filterTerminalStateJSON(output(p)))
                 ELSE FromParser(p))
    ELSE Returned(FALSE, "completed", output(p))

\* ImplementChanges, from the return of runClaudeCode on.
ImplementChanges(p, o) ==
    IF o.runErr THEN Returned(TRUE, "", <<>>)
    ELSE IF p.terminalState.Status # "" THEN FromParser(p)
    ELSE IF o.git = "fail" THEN Returned(FALSE, "error", << <<"git status failed">> >>)
    ELSE IF o.git = "clean" THEN Returned(FALSE, "completed", << <<"No changes were made.">> >>)
    ELSE Returned(FALSE, "completed", output(p))

\* ---- the steps of a run ------------------------------------------------------
OrchInit ==
    /\ cfg = OneObserver
    /\ NewHub
    /\ stdout = <<>> /\ fed = 0 /\ exited = FALSE /\ sp = NoParser
    /\ logf = <<>> /\ scan = NoScan
    /\ fstat = "present" /\ resp = NoResponse
    /\ threadJobs = [t \in Threads |-> ""]
    /\ \E t \in Threads : orch = [m \in Mentions |-> NoRun(IF m = "m1" THEN "T1" ELSE t)]
    /\ olog = <<>>
    /\ NoHandles

OrchFrame ==
    UNCHANGED <<cfg, hubVars, procVars, histVars, spVars, listVars, apiVars, lifeVars>>

\* The run ends and returns to handleMention; o is what the external
\* process did in it, if it was started.
Return(m, o, status, text, isJob, prURL) ==
    orch' = [orch EXCEPT ![m] = [@ EXCEPT !.pc = "done", !.proc = o, !.Status = status,
                                          !.Text = text, !.IsJob = isJob,
                                          !.PRURL = prURL]]

\* Faulty variant: the terminal event is emitted and the mapping is kept.
closeJob_KeepMapping(m, before, type) ==
    /\ olog' = olog \o before \o <<Terminal(m, orch[m].jobID, type)>>
    /\ UNCHANGED threadJobs

\* closeJob, after the events the run emitted before it in the same step.
closeJob(m, before, type) ==
    /\ olog' = olog \o before \o <<Terminal(m, orch[m].jobID, type)>>
    /\ threadJobs' = UnregisterThreadJob(threadJobs, orch[m].thread)

\* Orchestrate up to the first half of getOrCreateJob: the intent is parsed,
\* FindRepo answers, and the thread's active job is looked up.
Orchestrate(m, phase, repoFound) ==
    /\ orch[m].pc = "idle"
    /\ IF ~repoFound
          THEN orch' = [orch EXCEPT ![m] = [@ EXCEPT !.pc = "done", !.phase = phase,
                                                     !.Text = << <<"no repo">> >>]]
          ELSE LET existing == ActiveJobForThread(threadJobs, orch[m].thread)
               IN  orch' = [orch EXCEPT ![m] =
                      IF existing # ""
                          THEN [@ EXCEPT !.pc = "clone", !.phase = phase,
                                         !.jobID = existing]
                          ELSE [@ EXCEPT !.pc = "create", !.phase = phase]]
    /\ UNCHANGED <<threadJobs, olog>>
    /\ OrchFrame

\* The second half of getOrCreateJob: a new job is started and registered.
getOrCreateJob(m) ==
    /\ orch[m].pc = "create"
    /\ LET jobID == generateJobID(m)
       IN  /\ olog' = Append(olog, JobEvent(m, jobID, "job_started", "", FALSE, -1, -1, <<>>))
           /\ threadJobs' = RegisterThreadJob(threadJobs, orch[m].thread, jobID)
           /\ orch' = [orch EXCEPT ![m] = [@ EXCEPT !.pc = "clone", !.jobID = jobID,
                                                    !.created = TRUE]]
    /\ OrchFrame

RunTool(phase) == IF phase = "planning" THEN "generate_plan" ELSE "implement_changes"

\* Faulty variant: a failed clone closes the job without the tool_completed
\* event of clone_repo.
CloneRepo_NoCompletedOnError(m, ok) ==
    /\ orch[m].pc = "clone"
    /\ LET job == orch[m].jobID
           evs == <<JobEvent(m, job, "llm_response", "", FALSE, computeIntentCost(m), -1, <<>>),
                    Started(m, job, "clone_repo")>>
       IN  IF ok
              THEN /\ olog' = olog \o evs \o <<Completed(m, job, "clone_repo", FALSE),
                                               Started(m, job, RunTool(orch[m].phase))>>
                   /\ orch' = [orch EXCEPT ![m].pc = "running"]
                   /\ UNCHANGED threadJobs
              ELSE /\ closeJob(m, evs, "job_error")
                   /\ Return(m, NoProc, "", << <<"clone error">> >>, TRUE, "")
    /\ OrchFrame

\* The intent's cost is emitted and the repository is cloned; on success the
\* external process is started.
CloneRepo(m, ok) ==
    /\ orch[m].pc = "clone"
    /\ LET job == orch[m].jobID
           evs == <<JobEvent(m, job, "llm_response", "", FALSE, computeIntentCost(m), -1, <<>>),
                    Started(m, job, "clone_repo"),
                    Completed(m, job, "clone_repo", ~ok)>>
       IN  IF ok
              THEN /\ olog' = olog \o evs \o <<Started(m, job, RunTool(orch[m].phase))>>
                   /\ orch' = [orch EXCEPT ![m].pc = "running"]
                   /\ UNCHANGED threadJobs
              ELSE /\ closeJob(m, evs, "job_error")
                   /\ Return(m, NoProc, "", << <<"clone error">> >>, TRUE, "")
    /\ OrchFrame

\* GeneratePlan or ImplementChanges returns and the run acts on the outcome.
ClaudeCode(m, o) ==
    /\ orch[m].pc = "running"
    /\ LET job == orch[m].jobID
           planning == orch[m].phase = "planning"
           p == runClaudeCode(job, o, planning)
           state == IF planning THEN GeneratePlan(p, o) ELSE ImplementChanges(p, o)
           lines == ParserEvents(m, job, p)
           tool == RunTool(orch[m].phase)
       IN  IF state.err
              THEN /\ closeJob(m, lines \o <<Completed(m, job, tool, TRUE)>>, "job_error")
                   /\ Return(m, o, "", << <<"run error">> >>, TRUE, "")
           ELSE IF state.Status = "needs_information"
              THEN /\ olog' = olog \o lines \o <<Completed(m, job, tool, FALSE)>>
                   /\ Return(m, o, state.Status, state.Message, TRUE, "")
                   /\ UNCHANGED threadJobs
           ELSE IF state.Status = "error"
              THEN /\ closeJob(m, lines \o <<Completed(m, job, tool, FALSE)>>, "job_error")
                   /\ Return(m, o, state.Status, state.Message, TRUE, "")
           ELSE IF planning
              THEN /\ olog' = olog \o lines \o <<Completed(m, job, tool, FALSE)>>
                   /\ Return(m, o, state.Status, state.Message, TRUE, "")
                   /\ UNCHANGED threadJobs
           ELSE /\ olog' = olog \o lines \o <<Completed(m, job, tool, FALSE),
                                              Started(m, job, "create_pull_request")>>
                /\ orch' = [orch EXCEPT ![m] = [@ EXCEPT !.pc = "pr", !.proc = o,
                                                         !.Status = state.Status,
                                                         !.Text = state.Message]]
                /\ UNCHANGED threadJobs
    /\ OrchFrame

\* CreatePullRequest returns.
CreatePullRequest(m, ok) ==
    /\ orch[m].pc = "pr"
    /\ LET job == orch[m].jobID
       IN  IF ok
              THEN /\ closeJob(m, <<Completed(m, job, "create_pull_request", FALSE)>>,
                               "job_completed")
                   /\ Return(m, orch[m].proc, orch[m].Status, orch[m].Text, TRUE, "pr")
              ELSE /\ closeJob(m, <<Completed(m, job, "create_pull_request", TRUE)>>,
                               "job_error")
                   /\ Return(m, orch[m].proc, orch[m].Status, << <<"pr error">> >>, TRUE, "")
    /\ OrchFrame

OrchNext ==
    \E m \in Mentions :
        \/ \E phase \in {"planning", "implementation"}, repoFound \in BOOLEAN :
              Orchestrate(m, phase, repoFound)
        \/ getOrCreateJob(m)
        \/ \E ok \in BOOLEAN : CloneRepo(m, ok)
        \/ \E o \in ProcOutcomes : ClaudeCode(m, o)
        \/ \E ok \in BOOLEAN : CreatePullRequest(m, ok)

OrchSpec == OrchInit /\ [][OrchNext]_vars

\* ---- vocabulary of the orchestrator's properties ---------------------------
IsTerminalEvent(e) == e.Type \in {"job_completed", "job_error"}
\* The events emitted for job j, in the order of the Emit calls.
JobLog(j) == SelectSeq(olog, LAMBDA e : e.job = j)
\* The events emitted by the run of mention m.
RunLog(m) == SelectSeq(olog, LAMBDA e : e.by = m)
JobIds == {generateJobID(m) : m \in Mentions}
StartedJob(j) == \E i \in DOMAIN olog : olog[i].job = j /\ olog[i].Type = "job_started"
ClosedJob(j) == \E i \in DOMAIN olog : olog[i].job = j /\ IsTerminalEvent(olog[i])
\* The thread a job was started for.
ThreadOf(j) == orch[CHOOSE m \in Mentions : generateJobID(m) = j].thread
\* The jobs of thread t that were started and have no terminal event.
ActiveJobs(t) == {j \in JobIds : StartedJob(j) /\ ~ClosedJob(j) /\ ThreadOf(j) = t}

\* ---- C26 -----------------------------------------------------------------
\* C26: a thread never has two active jobs, and a run that works on an
\* active job of its thread works on the job registered for the thread.
C26_OneActiveJobPerThread ==
    /\ \A t \in Threads : Cardinality(ActiveJobs(t)) <= 1
    /\ \A m \in Mentions :
          orch[m].jobID \in ActiveJobs(orch[m].thread)
              => threadJobs[orch[m].thread] = orch[m].jobID

\* ---- C27 -----------------------------------------------------------------
\* The events a step appended to the log.
NewEvents == SubSeq(olog', Len(olog) + 1, Len(olog'))

\* What one step of the run of mention m may do to the job.
ClosesOnlyOnPROrError(m) ==
    LET term == SelectSeq(NewEvents, IsTerminalEvent)
        failed == \E i \in DOMAIN NewEvents :
                      NewEvents[i].Type = "tool_completed" /\ NewEvents[i].is_error
        returns == orch[m].pc # "done" /\ orch'[m].pc = "done" /\ orch'[m].IsJob
        keeps == \/ orch'[m].Status = "needs_information"
                 \/ orch'[m].phase = "planning" /\ orch'[m].Status = "completed"
    IN  /\ term # <<>> =>
              /\ Len(term) = 1
              /\ threadJobs'[orch[m].thread] = ""
              /\ term[1].Type = "job_completed" => orch'[m].PRURL # ""
              /\ term[1].Type = "job_error" => failed \/ orch'[m].Status = "error"
        /\ returns /\ keeps => term = <<>> /\ threadJobs' = threadJobs

OutputLines(evs) == SelectSeq(evs, LAMBDA e : e.Type = "claude_code_line")
\* The lines the process printed, the last one whether terminated or not.
PrintedLines(o) ==
    LET ls == SplitLines(o.stdout, <<>>)
    IN  IF ls[Len(ls)] = <<>> THEN SubSeq(ls, 1, Len(ls) - 1) ELSE ls

\* C28: when the run of the external process failed, the run's log holds the
\* events of everything the process printed, no Terminal State was returned,
\* and the run ended the job with a job-error event.
C28_FailedRunEndsJob ==
    \A m \in Mentions :
        orch[m].proc.runErr =>
            LET log == RunLog(m)
                all == runClaudeCode(orch[m].jobID,
                                     [orch[m].proc EXCEPT
                                         !.stdout = Unlines(PrintedLines(orch[m].proc))],
                                     orch[m].phase = "planning")
            IN  /\ OutputLines(log) = ParserEvents(m, orch[m].jobID, all)
                /\ orch[m].pc = "done" /\ orch[m].Status = ""
                /\ log[Len(log)].Type = "job_error"
                /\ log[Len(log) - 1] = Completed(m, orch[m].jobID, RunTool(orch[m].phase), TRUE)

\* ---- C29 -----------------------------------------------------------------
Statuses == {"completed", "needs_information", "error"}

\* C29: a Terminal State that was returned to the workflow has one of the
\* three statuses; a pull request is requested only for completed, the
\* question is returned for needs_information, and the job is closed with
\* job-error for error.
C29_StatusDrivesWorkflow ==
    \A m \in Mentions :
        LET r == orch[m]
            log == RunLog(m)
        IN  /\ r.Status # "" => r.Status \in Statuses
            /\ (\E i \in DOMAIN log : log[i].tool_name = "create_pull_request")
                  => r.Status = "completed"
            /\ r.pc = "done" /\ r.Status = "needs_information" =>
                  r.Text = FromParser(runClaudeCode(r.jobID, r.proc, FALSE)).Message
            /\ r.pc = "done" /\ r.Status = "error" => log[Len(log)].Type = "job_error"

\* ==== the log file handles: Hub.openJobFile =================================
\* The persistence block of Hub.run on its own: events are taken for the
\* jobs in any order and each is written through the handle openJobFile
\* returns; the process ends when http.ListenAndServe returns.

MaxPersist == 4      \* rounds of the loop of Hub.run

HandleInit ==
    /\ cfg = OneObserver
    /\ NewHub
    /\ stdout = <<>> /\ fed = 0 /\ exited = FALSE /\ sp = NoParser
    /\ logf = <<>> /\ scan = NoScan
    /\ fstat = "present" /\ resp = NoResponse
    /\ OrchIdle
    /\ NoHandles

HandleFrame ==
    UNCHANGED <<cfg, broadcast, clients, filter, send, closed, procVars, histVars,
                spVars, listVars, apiVars, orchVars>>

\* openJobFile(jobID): the cached handle if there is one, else os.OpenFile,
\* whose handle is cached when it succeeds (ok).
openJobFile(j, ok) ==
    IF j \in jobFiles THEN UNCHANGED <<handles, jobFiles>>
    ELSE IF ok THEN /\ handles' = [handles EXCEPT ![j] = @ + 1]
                    /\ jobFiles' = jobFiles \cup {j}
    ELSE UNCHANGED <<handles, jobFiles>>

\* One round of the loop of Hub.run up to the fan-out, for an event of job j.
Persist(j, ok) ==
    /\ ~stopped
    /\ seq < MaxPersist
    /\ seq' = seq + 1
    /\ openJobFile(j, ok)
    /\ files' = IF j \in jobFiles'
                   THEN [files EXCEPT ![j] =
                            Append(@, Marshal([id |-> seq', job |-> j, ok |-> TRUE]).data)]
                   ELSE files
    /\ UNCHANGED stopped
    /\ HandleFrame

\* http.ListenAndServe returns and main ends in log.Fatal: the process exits.
\* No statement of the program closes a log file.
Exit ==
    /\ ~stopped
    /\ stopped' = TRUE
    /\ UNCHANGED <<seq, jobFiles, files, handles>>
    /\ HandleFrame

HandleNext ==
    \/ \E j \in Jobs, ok \in BOOLEAN : Persist(j, ok)
    \/ Exit

HandleSpec == HandleInit /\ [][HandleNext]_vars

\* ---- C30 -----------------------------------------------------------------
\* C30: the Hub holds at most one open handle per job, the one its first
\* successful open returned, and when the Hub has shut down no log file is
\* open.
C30_OneHandlePerJobClosedAtShutdown ==
    /\ \A j \in Jobs : handles[j] <= 1 /\ (handles[j] = 1 <=> j \in jobFiles)
    /\ stopped => \A j \in Jobs : handles[j] = 0

\* ---- C31 --------------------------------------------------------------------

\* The step is the select of Emit, taken by producer p.
Select(p) == pc[p] = "send" /\ pc'[p] = "idle"

\* The loop has offered the current event to observer c: it is on c's queue
\* or was dropped because that queue was full.
Offered(c) == cur.id \in Ids(enq[c]) \/ <<c, cur.id>> \in droppedFor

\* The queue is only appended to by the select of Emit, and only the loop
\* takes from it, at its head.
FifoStep ==
    broadcast' # broadcast =>
        \/ \E p \in Producers :
               Select(p) /\ broadcast' = Append(broadcast, pend[p])
        \/ /\ runPc = "idle" /\ runPc' = "persist"
           /\ cur' = Head(broadcast)
           /\ broadcast' = Tail(broadcast)

\* The loop ends an iteration only after offering the event to every
\* matching registered observer.
OfferStep ==
    (runPc = "fanout" /\ runPc' = "idle") =>
        \A c \in clients : Matches(c, cur) => Offered(c)

\* The select of Emit drops the event exactly when h.broadcast is full and
\* appends it otherwise.
SelectStep ==
    \A p \in Producers :
        Select(p) =>
            /\ (pend[p].id \in ingestDropped') = (Len(broadcast) = cfg.cap)
            /\ (pend[p].id \notin ingestDropped') =
                   (broadcast' = Append(broadcast, pend[p]))

\* C31: the loop goes on whatever the observers do.  Under weak fairness of
\* the loop alone, every event in h.broadcast is eventually taken, persisted
\* and fanned out, also when every observer queue is full and never read;
\* an event persisted without an open failure is in its log; the queue is
\* only appended to by Emit and only the loop takes its head (FIFO); the
\* loop ends an iteration only after offering the event to every matching
\* registered observer; and the select of Emit drops the event exactly when
\* h.broadcast is full, whatever the observer queues hold.
C31_LoopProgressIndependentOfObservers ==
    /\ \A id \in 1..MaxSeq : Queued(id) ~> Processed(id)
    /\ [](\A e \in Emitted :
             (Persisted(e.id) /\ e.id \notin openFailed) => InLog(e))
    /\ [][FifoStep /\ OfferStep /\ SelectStep]_vars

\* The observer is registered with a full queue that it has never read; two
\* later events were dropped for it, and the loop has finished with both.
C31_Witness ==
    /\ cfg = DeepQueue
    /\ clients = {"c1"}
    /\ Len(send["c1"]) = SendCap /\ Len(enq["c1"]) = SendCap
    /\ \E a, b \in 1..seq :
           /\ a # b
           /\ Processed(a) /\ Processed(b)
           /\ <<"c1", a>> \in droppedFor /\ <<"c1", b>> \in droppedFor

\* ---- C32 --------------------------------------------------------------------
\* The operators of C32..C34 take the records (recs) or the complete lines
\* (ls) of the run as an argument, like those of C17.

\* The events the parser emitted for tool-result records, in emission
\* order; of a tool-error event only the kind is kept.
UserEvents ==
    LET es == SelectSeq(sp.emitted,
                        LAMBDA e : e.key \in {"tool_error", "agents_finished"})
    IN  [n \in DOMAIN es |->
            IF es[n].key = "tool_error" THEN Ev("tool_error", <<>>, 0) ELSE es[n]]

\* The sub-tasks pending when record i is processed: invoked by an earlier
\* record and referenced by no non-error result since.
PendingBefore(recs, i) ==
    {x \in TaskIds :
        \E r \in RecordingsIn(recs, x) :
            r[1] < i /\ \A j \in (r[1] + 1)..(i - 1) : ~ResultFor(recs, j, x, FALSE)}

\* The description recorded by the latest invocation of x before record i.
DescBefore(recs, i, x) ==
    LET rs == {r \in RecordingsIn(recs, x) : r[1] < i}
        last == CHOOSE r \in rs :
                    \A q \in rs : q[1] < r[1] \/ (q[1] = r[1] /\ q[2] <= r[2])
    IN  recs[last[1]].Content[last[2]].Description

\* The descriptions of the pending sub-tasks that tool-result record i
\* resolves, in the order of the sub-blocks that resolve them.
ResolvedBy(recs, i) ==
    LET c == recs[i].Content
        pending == PendingBefore(recs, i)
        good(k) == /\ c[k].ok /\ c[k].Type = "tool_result" /\ ~c[k].IsError
                   /\ c[k].ID \in pending
        first(k) == good(k) /\ \A k2 \in 1..(k - 1) : ~(good(k2) /\ c[k2].ID = c[k].ID)
        idx == SelectSeq([k \in DOMAIN c |-> k], first)
    IN  [n \in DOMAIN idx |-> DescBefore(recs, i, c[idx[n]].ID)]

\* The sub-blocks of record i that signal an error.
ErrorBlocks(recs, i) ==
    SelectSeq(recs[i].Content,
              LAMBDA b : b.ok /\ b.Type = "tool_result" /\ b.IsError)

\* What C32 says record i emits: one tool-error event per error sub-block,
\* then one aggregated event if and only if it resolves k >= 1 sub-tasks.
BatchOf(recs, i) ==
    IF recs[i].Type # "user" THEN <<>>
    ELSE LET done == ResolvedBy(recs, i)
         IN  [n \in DOMAIN ErrorBlocks(recs, i) |-> Ev("tool_error", <<>>, 0)]
             \o (IF Len(done) >= 1
                    THEN <<Ev("agents_finished", done, Len(done))>>
                    ELSE <<>>)

RECURSIVE BatchesUpTo(_, _)
BatchesUpTo(recs, n) ==
    IF n = 0 THEN <<>> ELSE BatchesUpTo(recs, n - 1) \o BatchOf(recs, n)

\* C32: the tool-error and aggregated events emitted are, record by record,
\* the tool-error events of the record followed by exactly one aggregated
\* event when the record resolves k >= 1 pending sub-tasks (its count is k
\* and it lists their descriptions in sub-block order) and by none when
\* k = 0.
C32_FinishedSubTasksBatched ==
    LET recs == Records IN UserEvents = BatchesUpTo(recs, Len(recs))

\* Two sub-tasks were invoked; one record held an error result and resolved
\* both (k = 2), the next record referenced a resolved one again (k = 0).
C32_Witness ==
    /\ CompleteLines = <<Json("task"), Json("done"), Json("done1")>>
    /\ fed = Len(stdout)
    /\ UserEvents = <<Ev("tool_error", <<>>, 0),
                      Ev("agents_finished", <<"d2", "d1">>, 2)>>

\* ---- C33 --------------------------------------------------------------------

RECURSIVE ErrorCount(_, _)
\* The number of error sub-blocks in the tool-result records 1..n.
ErrorCount(recs, n) ==
    IF n = 0 THEN 0
    ELSE ErrorCount(recs, n - 1)
         + (IF recs[n].Type = "user" THEN Len(ErrorBlocks(recs, n)) ELSE 0)

\* C33: there is exactly one tool-error event per error sub-block; the
\* pending map holds exactly the sub-tasks that were invoked and not
\* referenced since by a non-error result, so an error result for a pending
\* id leaves it pending; and a sub-task that met an error result while
\* pending and a non-error result in a later record has been reported.
C33_ErrorResultResolvesNothing ==
    LET recs == Records
    IN  /\ Len(SelectSeq(sp.emitted, LAMBDA e : e.key = "tool_error"))
               = ErrorCount(recs, Len(recs))
        /\ DOMAIN sp.pendingTaskDescs = PendingBefore(recs, Len(recs) + 1)
        /\ \A x \in TaskIds, i \in DOMAIN recs :
               (/\ ResultFor(recs, i, x, TRUE) /\ x \in PendingBefore(recs, i)
                /\ \E j \in (i + 1)..Len(recs) : ResultFor(recs, j, x, FALSE))
               => Reports(DescBefore(recs, i, x)) >= 1

\* A pending sub-task met an error result, which emitted one tool-error
\* event, and was reported finished by the non-error result that followed.
C33_Witness ==
    /\ CompleteLines = <<Json("task"), Json("fail"), Json("done1")>>
    /\ fed = Len(stdout)
    /\ UserEvents = <<Ev("tool_error", <<>>, 0), Ev("agents_finished", <<"d1">>, 1)>>
    /\ DOMAIN sp.pendingTaskDescs = {"t2"}

\* ---- C34 --------------------------------------------------------------------

\* One text event per line of a text that is not blank, in line order.
TextEvents(lines) ==
    LET keep == SelectSeq(lines, LAMBDA l : TrimSpace(l) # <<>>)
    IN  [n \in DOMAIN keep |-> Ev("text", keep[n], 0)]

RECURSIVE SegmentEvents(_)
\* The events of the content segments of an assistant record, segment by
\* segment: the lines of a text segment that are no status line, the
\* thinking text, the name of the tool invoked.
SegmentEvents(blocks) ==
    IF blocks = <<>> THEN <<>>
    ELSE LET b == Head(blocks)
         IN  (IF ~b.ok THEN <<>>
              ELSE IF b.Type = "text" THEN TextEvents(SelectSeq(b.Text, NotStatusLine))
              ELSE IF b.Type = "thinking" THEN <<Ev("thinking", b.Text[1], 0)>>
              ELSE IF b.Type = "tool_use" THEN <<Ev("tool_name", <<b.Name>>, 0)>>
              ELSE <<>>)
             \o SegmentEvents(Tail(blocks))

\* The events of complete line i: none for a blank line, the trimmed text
\* for a line that is no record, and for a record what its type emits.
LineEvents(ls, recs, i) ==
    LET l == ls[i]
        t == TrimSpace(l)
        u == UnmarshalEvent(t)
        r == u.evt
    IN  IF t = <<>> THEN <<>>
        ELSE IF u.err THEN <<Ev("text", t, 0)>>
        ELSE IF r.Type = "assistant" THEN SegmentEvents(r.Content)
        ELSE IF r.Type = "user"
            THEN BatchOf(recs, Len(SelectSeq(SubSeq(ls, 1, i), IsRecord)))
        ELSE IF r.Type = "result"
            THEN TextEvents(IF r.Subtype = "error" /\ r.Error # <<>>
                               THEN r.Error ELSE r.Result)
        ELSE <<>>

RECURSIVE EventsUpTo(_, _, _)
EventsUpTo(ls, recs, n) ==
    IF n = 0 THEN <<>> ELSE EventsUpTo(ls, recs, n - 1) \o LineEvents(ls, recs, n)

\* C34: in every state of a run, however its output was split into Write
\* calls, the Emit calls made so far are the events of complete line 1,
\* then those of complete line 2, and so on; within an assistant record
\* they follow its content segments, and within a text segment its lines.
\* So the calls for lines 1..i are a prefix of the calls for lines 1..i+1.
\* (Of a tool-error event only the kind is compared.)
C34_EmissionOrder ==
    LET ls == CompleteLines
        recs == Records
    IN  [n \in DOMAIN sp.emitted |->
            IF sp.emitted[n].key = "tool_error" THEN Ev("tool_error", <<>>, 0)
                                                ELSE sp.emitted[n]]
          = EventsUpTo(ls, recs, Len(ls))

\* Three lines were copied: a record whose text segment emits two lines, a
\* record with thinking and text segments, and a result of three lines.
C34_Witness ==
    /\ CompleteLines = <<Json("say2"), Json("sub"), Json("res")>>
    /\ [n \in DOMAIN sp.emitted |-> sp.emitted[n].text]
          = <<StatusLine("", "m0"), CutStatusLine, <<"hm">>, <<"b">>,
              <<"r">>, StatusLine("", "m0"), StatusLine("completed", "m4")>>

\* ---- C35 --------------------------------------------------------------------

\* Hub.Emit takes any map[string]any: besides the payloads of this
\* repository's callers, one that json.Marshal rejects (a NaN, a channel, a
\* function value).
Payloads == BOOLEAN

\* The Hub with two events whose payloads are drawn from Payloads.
PayloadInit ==
    /\ cfg = TwoObservers
    /\ NewHub
    /\ EnvIdle

PayloadNext ==
    \/ \E p \in Producers, h \in HubRefs, j \in Filters : EmitReturn(p, h, j)
    \/ \E p \in Producers, h \in HubRefs, j \in Filters, d \in Payloads :
           EmitAssign(p, h, j, d)
    \/ \E p \in Producers : EmitSend(p)
    \/ RunRecv
    \/ RunPersistWrite
    \/ RunPersistOpenFail
    \/ \E c \in Clients : RunFanout(c)
    \/ RunRUnlock
    \/ \E c \in Clients, f \in Filters : Connect(c, f)
    \/ \E c \in Clients : Receive(c)
    \/ \E c \in Clients : Disconnect(c)
    \/ \E c \in Clients : RemoveAgain(c)

PayloadSpec == PayloadInit /\ [][PayloadNext]_vars

\* C35: whatever the payload of an accepted event, every line of every job
\* log is a well-formed record, the event is in its job's log once the loop
\* has persisted it without an open failure, and the loop leaves the
\* persistence block of an event only for the fan-out of that event over
\* the whole registry.
C35_PayloadAgnostic ==
    /\ [](\A j \in Jobs : \A i \in DOMAIN files[j] : ~Unmarshal(files[j][i]).err)
    /\ [](\A e \in Emitted :
             (Persisted(e.id) /\ e.id \notin openFailed) => InLog(e))
    /\ [][(runPc = "persist" /\ runPc' # "persist") =>
             (runPc' = "fanout" /\ cur' = cur /\ todo' = clients)]_vars

\* ---- C36 --------------------------------------------------------------------

\* C36: in the log of every job a terminal event is the last event, so
\* nothing follows it and there is at most one, whether the runs of a
\* thread follow one another or run at the same time on the thread's job.
C36_TerminalEventIsLast ==
    \A j \in JobIds :
        \A i \in DOMAIN JobLog(j) :
            IsTerminalEvent(JobLog(j)[i]) => i = Len(JobLog(j))

\* ---- C37 --------------------------------------------------------------------

\* The tool-started, tool-completed and terminal events of the run of
\* mention m, in emission order.
ToolMarks(m) ==
    SelectSeq(RunLog(m),
              LAMBDA e : e.Type \in {"tool_started", "tool_completed"}
                            \/ IsTerminalEvent(e))

\* In s every tool-started event is directly followed (among the events of
\* s) by the tool-completed event of the same tool, and every
\* tool-completed event directly follows the tool-started event of its tool.
Paired(s) ==
    \A i \in DOMAIN s :
        /\ (s[i].Type = "tool_started" /\ i < Len(s)) =>
               (s[i + 1].Type = "tool_completed" /\ s[i + 1].tool_name = s[i].tool_name)
        /\ s[i].Type = "tool_completed" =>
               (i > 1 /\ s[i - 1].Type = "tool_started"
                      /\ s[i - 1].tool_name = s[i].tool_name)

\* C37: in the events of one run, each tool-started event is followed by
\* exactly one tool-completed event of the same tool before the next
\* tool-started event and before any terminal event of the run; a run that
\* has returned has no tool-started event left without its tool-completed.
C37_ToolEventsPaired ==
    \A m \in Mentions :
        /\ Paired(ToolMarks(m))
        /\ (orch[m].pc = "done" /\ ToolMarks(m) # <<>>) =>
               ToolMarks(m)[Len(ToolMarks(m))].Type # "tool_started"

\* One run went through clone, implementation and pull request and closed
\* its job as completed; the other ended on the error of its external
\* process.
C37_Witness ==
    \E m, n \in Mentions :
        /\ orch[m].pc = "done" /\ orch[n].pc = "done"
        /\ [i \in DOMAIN ToolMarks(m) |-> ToolMarks(m)[i].Type]
              = <<"tool_started", "tool_completed", "tool_started", "tool_completed",
                  "tool_started", "tool_completed", "job_completed">>
        /\ [i \in DOMAIN ToolMarks(n) |-> ToolMarks(n)[i].Type]
              = <<"tool_started", "tool_completed", "tool_started", "tool_completed",
                  "job_error">>
        /\ ToolMarks(n)[4].is_error

\* ---- one request to the statistics (ServeStats) ------------------------------

\* An entry of the data directory: whether its name ends in .jsonl, what
\* os.Open finds, and the lines of the file.
DirEntry(jsonl, stat, lines) == [jsonl |-> jsonl, stat |-> stat, lines |-> lines]

\* What the directory holds besides the job's log file: nothing, a file
\* that is no log, or the log of another job that ended in an error.
OtherEntries ==
    {<<>>,
     <<DirEntry(FALSE, "present", <<>>)>>,
     <<DirEntry(TRUE, "present",
                <<LogEvent("llm_response", "", 2, -1), LogEvent("job_error", "", -1, 4)>>)>>}

\* statsResponse{} (the token counters, which no line of the logs explored
\* carries, are left out).
NoStats ==
    [TotalJobs |-> 0, CompletedJobs |-> 0, ErrorJobs |-> 0, RunningJobs |-> 0,
     TotalCostUSD |-> 0]

\* The body of the scan loop for a line that unmarshalled into e.
statsEvent(acc, e) ==
    IF e.Type = "llm_response"
        THEN (IF e.cost_usd >= 0 THEN [acc EXCEPT !.cost = @ + e.cost_usd] ELSE acc)
    ELSE IF e.Type = "job_completed" THEN [acc EXCEPT !.status = "completed"]
    ELSE IF e.Type = "job_error" THEN [acc EXCEPT !.status = "error"]
    ELSE acc

RECURSIVE statsLines(_, _)
\* for scanner.Scan() { ... } of ServeStats.
statsLines(acc, lines) ==
    IF lines = <<>> \/ Head(lines).kind = "long" THEN acc
    ELSE IF Head(lines).kind = "corrupt" THEN statsLines(acc, Tail(lines))
    ELSE statsLines(statsEvent(acc, Head(lines)), Tail(lines))

RECURSIVE statsEntries(_, _)
\* for _, entry := range entries { ... }
statsEntries(stats, entries) ==
    IF entries = <<>> THEN stats
    ELSE LET entry == Head(entries)
             counted == [stats EXCEPT !.TotalJobs = @ + 1]
             acc == statsLines([status |-> "running", cost |-> stats.TotalCostUSD],
                               entry.lines)
             summed == [counted EXCEPT !.TotalCostUSD = acc.cost]
         IN  IF ~entry.jsonl THEN statsEntries(stats, Tail(entries))
             ELSE IF entry.stat # "present" THEN statsEntries(counted, Tail(entries))
             ELSE IF acc.status = "completed"
                 THEN statsEntries([summed EXCEPT !.CompletedJobs = @ + 1], Tail(entries))
             ELSE IF acc.status = "error"
                 THEN statsEntries([summed EXCEPT !.ErrorJobs = @ + 1], Tail(entries))
             ELSE statsEntries([summed EXCEPT !.RunningJobs = @ + 1], Tail(entries))

\* GET /api/stats.  readDir is the outcome of os.ReadDir; the directory
\* holds the job's log file (logf, fstat) and the other entries.
ServeStats(readDir, others) ==
    /\ resp = NoResponse
    /\ resp' =
          IF readDir = "missing" THEN [code |-> 200, stats |-> NoStats, dir |-> <<>>]
          ELSE IF readDir = "error" THEN [code |-> 500, stats |-> NoStats, dir |-> <<>>]
          ELSE LET dir == <<DirEntry(TRUE, fstat, logf)>> \o others
               IN  [code |-> 200, stats |-> statsEntries(NoStats, dir), dir |-> dir]
    /\ UNCHANGED <<cfg, hubVars, procVars, histVars, spVars, listVars, orchVars,
                   lifeVars, fstat>>

StatsNext ==
    \E readDir \in {"ok", "missing", "error"}, others \in OtherEntries :
        ServeStats(readDir, others)

StatsSpec == HistoryInit /\ [][StatsNext]_vars

\* ---- C38 --------------------------------------------------------------------

\* C38: in every statistics response the total is the number of log files
\* of the directory and equals the sum of the three status counts.
C38_StatsCountsConsistent ==
    (resp # NoResponse /\ resp.code = 200) =>
        /\ resp.stats.TotalJobs = Len(SelectSeq(resp.dir, LAMBDA e : e.jsonl))
        /\ resp.stats.TotalJobs =
              resp.stats.CompletedJobs + resp.stats.ErrorJobs + resp.stats.RunningJobs

\* ---- C39 --------------------------------------------------------------------

\* C39: the total cost carried by a terminal event of a job is the sum of
\* the costs of the llm-response events that the job's log holds up to it.
C39_TerminalCostIsSum ==
    \A j \in JobIds :
        \A i \in DOMAIN JobLog(j) :
            IsTerminalEvent(JobLog(j)[i]) =>
                JobLog(j)[i].total_cost_usd = SumCost(SubSeq(JobLog(j), 1, i))
====
